---- MODULE Spec2Model ----
(***************************************************************************)
(* git-copy: the scrub rules, the fast-export stream filter and the        *)
(* per-target sync driver.                                                 *)
(*                                                                         *)
(* A Go string or byte slice is a sequence of one-character strings, so    *)
(* that substitution, trimming and splitting are computed and not assumed. *)
(***************************************************************************)
EXTENDS Integers, Sequences, FiniteSets, TLC

\* ------------------------------------------------------------------------
\* strings
\* ------------------------------------------------------------------------

UpperLetters ==
    << "A", "B", "C", "D", "E", "F", "G", "H", "I", "J", "K", "L", "M",
       "N", "O", "P", "Q", "R", "S", "T", "U", "V", "W", "X", "Y", "Z" >>

LowerLetters ==
    << "a", "b", "c", "d", "e", "f", "g", "h", "i", "j", "k", "l", "m",
       "n", "o", "p", "q", "r", "s", "t", "u", "v", "w", "x", "y", "z" >>

WhiteSpace == {" ", "\t", "\n", "\r"}

IsUpperCh(c) == \E i \in 1..Len(UpperLetters) : UpperLetters[i] = c

IsLowerCh(c) == \E i \in 1..Len(LowerLetters) : LowerLetters[i] = c

ToLowerCh(c) ==
    IF IsUpperCh(c)
    THEN LowerLetters[CHOOSE i \in 1..Len(UpperLetters) : UpperLetters[i] = c]
    ELSE c

ToUpperCh(c) ==
    IF IsLowerCh(c)
    THEN UpperLetters[CHOOSE i \in 1..Len(LowerLetters) : LowerLetters[i] = c]
    ELSE c

ToLower(s) == [i \in 1..Len(s) |-> ToLowerCh(s[i])]

ToUpper(s) == [i \in 1..Len(s) |-> ToUpperCh(s[i])]

HasPrefix(s, p) == Len(p) <= Len(s) /\ SubSeq(s, 1, Len(p)) = p

TrimPrefix(s, p) == IF HasPrefix(s, p) THEN SubSeq(s, Len(p) + 1, Len(s)) ELSE s

Contains(s, sub) ==
    \E i \in 0..(Len(s) - Len(sub)) : SubSeq(s, i + 1, i + Len(sub)) = sub

RECURSIVE TrimLeftSpace(_)
TrimLeftSpace(s) ==
    IF s # <<>> /\ s[1] \in WhiteSpace THEN TrimLeftSpace(Tail(s)) ELSE s

RECURSIVE TrimRightSpace(_)
TrimRightSpace(s) ==
    IF s # <<>> /\ s[Len(s)] \in WhiteSpace
    THEN TrimRightSpace(SubSeq(s, 1, Len(s) - 1))
    ELSE s

TrimSpace(s) == TrimRightSpace(TrimLeftSpace(s))

\* strings.ReplaceAll(s, old, new) for a one-character old
RECURSIVE ReplaceCh(_, _, _)
ReplaceCh(s, old, new) ==
    IF s = <<>> THEN <<>>
    ELSE <<(IF s[1] = old THEN new ELSE s[1])>> \o ReplaceCh(Tail(s), old, new)

\* strings.Split(s, sep) for a one-character sep: always at least one piece
RECURSIVE SplitAcc(_, _, _)
SplitAcc(s, sep, cur) ==
    IF s = <<>> THEN <<cur>>
    ELSE IF s[1] = sep THEN <<cur>> \o SplitAcc(Tail(s), sep, <<>>)
    ELSE SplitAcc(Tail(s), sep, Append(cur, s[1]))

Split(s, sep) == SplitAcc(s, sep, <<>>)

\* strings.Fields(s): the maximal runs of non-space characters
RECURSIVE FieldsAcc(_, _)
FieldsAcc(s, cur) ==
    IF s = <<>> THEN (IF cur = <<>> THEN <<>> ELSE <<cur>>)
    ELSE IF s[1] \in WhiteSpace
         THEN (IF cur = <<>> THEN <<>> ELSE <<cur>>) \o FieldsAcc(Tail(s), <<>>)
         ELSE FieldsAcc(Tail(s), Append(cur, s[1]))

Fields(s) == FieldsAcc(s, <<>>)

\* strings.IndexByte(s, c): 0-based index of the first c, -1 when absent
IndexByte(s, c) ==
    IF \E i \in 1..Len(s) : s[i] = c
    THEN (CHOOSE i \in 1..Len(s) : s[i] = c /\ \A j \in 1..(i - 1) : s[j] # c) - 1
    ELSE -1

\* the strings of length lo..hi over an alphabet
StringsOver(alphabet, lo, hi) ==
    UNION {[1..n -> alphabet] : n \in lo..hi}

\* ------------------------------------------------------------------------
\* scrub rules (internal/scrub/rules.go)
\* ------------------------------------------------------------------------

S_gitcopy == <<".", "g", "i", "t", "-", "c", "o", "p", "y">>
S_claude == <<".", "c", "l", "a", "u", "d", "e">>

NonNegotiableDirs == <<S_gitcopy, S_claude>>

normPath(p) ==
    LET t == TrimSpace(p)
    IN IF t = <<>> THEN <<>>
       ELSE ReplaceCh(TrimPrefix(t, <<".", "/">>), "\\", "/")

IsNonNegotiablePath(p) ==
    LET q == normPath(p)
    IN \E i \in 1..Len(NonNegotiableDirs) :
          \/ q = NonNegotiableDirs[i]
          \/ HasPrefix(q, NonNegotiableDirs[i] \o <<"/">>)

nonNegotiablePatterns ==
    [i \in 1..Len(NonNegotiableDirs) |-> NonNegotiableDirs[i] \o <<"/", "*", "*">>]

isNonNegotiablePattern(p) ==
    \E i \in 1..Len(NonNegotiableDirs) : p = NonNegotiableDirs[i] \o <<"/", "*", "*">>

\* path.Match on one segment, for patterns made of literals, * and ?
RECURSIVE pathMatch(_, _)
pathMatch(pat, name) ==
    IF pat = <<>> THEN name = <<>>
    ELSE IF pat[1] = "*"
         THEN \E k \in 0..Len(name) : pathMatch(Tail(pat), SubSeq(name, k + 1, Len(name)))
    ELSE IF name = <<>> THEN FALSE
    ELSE IF pat[1] = "?" THEN pathMatch(Tail(pat), Tail(name))
    ELSE pat[1] = name[1] /\ pathMatch(Tail(pat), Tail(name))

RECURSIVE matchSegs(_, _)
matchSegs(patSegs, pathSegs) ==
    IF Len(patSegs) = 0 THEN Len(pathSegs) = 0
    ELSE IF Len(patSegs) = 1 /\ patSegs[1] = <<>>
         THEN Len(pathSegs) = 1 /\ pathSegs[1] = <<>>
    ELSE IF patSegs[1] = <<"*", "*">>
         THEN \E k \in 0..Len(pathSegs) :
                 matchSegs(Tail(patSegs), SubSeq(pathSegs, k + 1, Len(pathSegs)))
    ELSE IF Len(pathSegs) = 0 THEN FALSE
    ELSE pathMatch(patSegs[1], pathSegs[1]) /\ matchSegs(Tail(patSegs), Tail(pathSegs))

\* the whole pattern matched against the whole path as one segment
matchGlobAcrossSlashes(pattern, target) ==
    pathMatch(normPath(pattern), normPath(target))

matchGlob(pattern, target) ==
    matchSegs(Split(normPath(pattern), "/"), Split(normPath(target), "/"))

MapNorm(s) == [i \in 1..Len(s) |-> normPath(s[i])]

SeqRange(s) == {s[i] : i \in 1..Len(s)}

CompileError(msg) == [ok |-> FALSE, err |-> msg]

\* Compile comparing the replacement and the username as written, case included
CompileExactCase(r) ==
    LET priv == TrimSpace(r.PrivateUsername)
        repl == TrimSpace(r.Replacement)
        keepPat(p) == ~(p = <<>> \/ IsNonNegotiablePath(p))
        ex == nonNegotiablePatterns \o SelectSeq(MapNorm(r.ExcludePatterns), keepPat)
        opt == SeqRange(SelectSeq(MapNorm(r.OptInPaths), keepPat))
        keepFinal(p) == isNonNegotiablePattern(p) \/ p \notin opt
        trimKey(kv) == <<TrimSpace(kv[1]), kv[2]>>
        keyed == [i \in 1..Len(r.ExtraReplacements) |-> trimKey(r.ExtraReplacements[i])]
        hasKey(kv) == kv[1] # <<>>
        pubName == TrimSpace(r.PublicAuthorName)
        pubEmail == TrimSpace(r.PublicAuthorEmail)
    IN IF priv = <<>> THEN CompileError("private username is required")
       ELSE IF repl = <<>> THEN CompileError("replacement is required")
       ELSE IF Contains(repl, priv)
            THEN CompileError("replacement string must not contain the private username")
       ELSE [ok |-> TRUE,
             err |-> "",
             private |-> priv,
             repl |-> repl,
             extra |-> SelectSeq(keyed, hasKey),
             exclude |-> SelectSeq(ex, keepFinal),
             optIn |-> opt,
             publicAuthorName |-> IF pubName = <<>> THEN repl ELSE pubName,
             publicAuthorEmail |->
                 IF pubEmail = <<>>
                 THEN repl \o <<"@", "e", "x", "a", "m", "p", "l", "e", ".",
                                "i", "n", "v", "a", "l", "i", "d">>
                 ELSE pubEmail]

\* Compile(r): r.ExtraReplacements is the sequence of (key, value) pairs in the
\* order the map iteration delivers them.
Compile(r) ==
    LET priv == TrimSpace(r.PrivateUsername)
        repl == TrimSpace(r.Replacement)
        keepPat(p) == ~(p = <<>> \/ IsNonNegotiablePath(p))
        ex == nonNegotiablePatterns \o SelectSeq(MapNorm(r.ExcludePatterns), keepPat)
        opt == SeqRange(SelectSeq(MapNorm(r.OptInPaths), keepPat))
        keepFinal(p) == isNonNegotiablePattern(p) \/ p \notin opt
        trimKey(kv) == <<TrimSpace(kv[1]), kv[2]>>
        keyed == [i \in 1..Len(r.ExtraReplacements) |-> trimKey(r.ExtraReplacements[i])]
        hasKey(kv) == kv[1] # <<>>
        pubName == TrimSpace(r.PublicAuthorName)
        pubEmail == TrimSpace(r.PublicAuthorEmail)
    IN IF priv = <<>> THEN CompileError("private username is required")
       ELSE IF repl = <<>> THEN CompileError("replacement is required")
       ELSE IF Contains(ToLower(repl), ToLower(priv))
            THEN CompileError("replacement string must not contain the private username")
       ELSE [ok |-> TRUE,
             err |-> "",
             private |-> priv,
             repl |-> repl,
             extra |-> SelectSeq(keyed, hasKey),
             exclude |-> SelectSeq(ex, keepFinal),
             optIn |-> opt,
             publicAuthorName |-> IF pubName = <<>> THEN repl ELSE pubName,
             publicAuthorEmail |->
                 IF pubEmail = <<>>
                 THEN repl \o <<"@", "e", "x", "a", "m", "p", "l", "e", ".",
                                "i", "n", "v", "a", "l", "i", "d">>
                 ELSE pubEmail]

\* the user's exclude patterns only, without the non-negotiable test
ShouldExcludeByUserPatterns(c, p) ==
    \E i \in (Len(nonNegotiablePatterns) + 1)..Len(c.exclude) :
        /\ normPath(c.exclude[i]) # <<>>
        /\ matchGlob(normPath(c.exclude[i]), normPath(p))

ShouldExclude(c, p) ==
    \/ IsNonNegotiablePath(normPath(p))
    \/ \E i \in 1..Len(c.exclude) :
          /\ normPath(c.exclude[i]) # <<>>
          /\ matchGlob(normPath(c.exclude[i]), normPath(p))

\* applyCasePattern without the title-case branch
applyCasePatternNoTitle(match, replacement) ==
    IF Len(match) = 0 THEN replacement
    ELSE IF \A i \in 1..Len(match) : ~IsUpperCh(match[i]) THEN ToLower(replacement)
    ELSE IF \A i \in 1..Len(match) : ~IsLowerCh(match[i]) THEN ToUpper(replacement)
    ELSE replacement

applyCasePattern(match, replacement) ==
    IF Len(match) = 0 THEN replacement
    ELSE LET allLower == \A i \in 1..Len(match) : ~IsUpperCh(match[i])
             allUpper == \A i \in 1..Len(match) : ~IsLowerCh(match[i])
             restLower == \A i \in 2..Len(match) : ~IsUpperCh(match[i])
             lowered == ToLower(replacement)
         IN IF allLower THEN lowered
            ELSE IF allUpper THEN ToUpper(replacement)
            ELSE IF IsUpperCh(match[1]) /\ restLower
                 THEN (IF Len(lowered) > 0 /\ IsLowerCh(lowered[1])
                       THEN <<ToUpperCh(lowered[1])>> \o Tail(lowered)
                       ELSE lowered)
            ELSE replacement

\* regexp "(?i)" + QuoteMeta(pat), ReplaceAllStringFunc: the leftmost matches,
\* left to right, none overlapping an earlier one; pat is not empty.
RECURSIVE ReplaceAllFold(_, _, _)
ReplaceAllFold(s, pat, repl) ==
    IF s = <<>> THEN <<>>
    ELSE IF Len(pat) <= Len(s) /\ ToLower(SubSeq(s, 1, Len(pat))) = ToLower(pat)
         THEN applyCasePattern(SubSeq(s, 1, Len(pat)), repl)
                 \o ReplaceAllFold(SubSeq(s, Len(pat) + 1, Len(s)), pat, repl)
    ELSE <<s[1]>> \o ReplaceAllFold(Tail(s), pat, repl)

RECURSIVE RewriteExtra(_, _)
RewriteExtra(s, extra) ==
    IF extra = <<>> THEN s
    ELSE RewriteExtra(ReplaceAllFold(s, extra[1][1], extra[1][2]), Tail(extra))

RewriteString(c, s) == RewriteExtra(ReplaceAllFold(s, c.private, c.repl), c.extra)

RewriteBytes(c, b) == RewriteExtra(ReplaceAllFold(b, c.private, c.repl), c.extra)

\* ------------------------------------------------------------------------
\* the sync driver: SyncRepo and syncTarget
\* ------------------------------------------------------------------------

\* bounds of the driver model
MaxSyncs == 2

VARIABLES
    scan,              \* the audit: scanReachableBlobsForStrings, its cat-file process and its feeder
    daemon,            \* the daemon: Server.Run, its semaphore and its sync goroutines
    st,                \* .git-copy/state.json: label -> TargetState
    cache,             \* label -> [final, tmp]: <label>.git and <label>.tmp.git
    remote,            \* label -> what the last mirror push published
    run,               \* the running SyncRepo call: its arguments, locals and position
    log,               \* what the latest syncTarget call has done, in order
    syncs,             \* number of SyncRepo calls so far (also the clock)
    synced,            \* history: label -> the collapse lists of its last successful sync
    pipe,              \* one syncTarget call seen at the level of contents
    ef,                \* the ExportFilter
    rec,               \* the record Filter read last
    out,               \* what Filter wrote for it, line by line
    ferr,              \* the error Filter returned ("" while it runs)
    ferrArgs,          \* the operands of the format of that error, in order
    refsRead,          \* history: the original ref names of the records read, in order
    commits,           \* history: mark -> the commit record read with that mark and
                       \* what Filter wrote for it
    keepOps,           \* whether that history keeps the file operations of each
                       \* commit and the lines written for it
    call,              \* one call of a function of the packages: its name, its
                       \* arguments, whether it has returned, and what it returned
    stateFile,         \* .git-copy/state.json as a file: missing, or its bytes
    lastSaved,         \* history: the state the last successful state.Save was given
    proc,              \* one exportFilterImport call seen at the level of processes:
                       \* the driver, fast-export, the filter goroutine, fast-import
    input              \* the stream Filter reads, line by line, and how far it has read

syncVars == <<st, cache, remote, run, log, syncs, synced>>

scrubVars == <<pipe>>

filterVars == <<ef, rec, out, ferr, ferrArgs, refsRead, commits, keepOps>>

callVars == <<call>>

fileVars == <<stateFile, lastSaved>>

procVars == <<proc>>

streamVars == <<input>>

daemonVars == <<daemon>>

scanVars == <<scan>>

\* what the actions of the driver leave alone
notSyncVars == <<scrubVars, filterVars, callVars, fileVars, procVars, streamVars, daemonVars, scanVars>>

S_priv == <<"b", "o", "b">>
S_pub1 == <<"p", "u", "b">>
S_pub2 == <<"j", "o", "e">>
S_bad == <<"x", "B", "o", "b">>

\* file names that may be listed in replace_history_with_current, in sort.Strings order
CollapseFiles == <<"LICENSE", "NOTICE">>

Labels == <<"t1", "t2">>

LabelSet == {Labels[i] : i \in 1..Len(Labels)}

\* the values of defaults.replace_history_with_current a caller may pass
CollapseLists ==
    {<<>>, <<"LICENSE">>, <<"LICENSE", "NOTICE">>, <<"NOTICE", "LICENSE">>}

\* the replacement tokens of the first target a caller may pass: none (the account
\* is used) or one that contains the private username in another case
Replacements == {<<>>, S_bad}

\* the object ids the source branch may be at when SyncRepo lists the refs
SourceOids == {"c1", "c2"}

\* the RepoConfig a caller loads and passes to SyncRepo
RepoConfig(defaults, r1) ==
    [PrivateUsername |-> S_priv,
     Defaults |-> [Exclude |-> <<>>, OptIn |-> <<>>,
                   ReplaceHistoryWithCurrent |-> defaults,
                   ExtraReplacementPairs |-> <<>>],
     Targets |-> << [Label |-> "t1", Account |-> S_pub1, Replacement |-> r1,
                     Exclude |-> <<>>, OptIn |-> <<>>,
                     ReplaceHistoryWithCurrent |-> <<>>,
                     PublicAuthorName |-> <<>>, PublicAuthorEmail |-> <<>>],
                    [Label |-> "t2", Account |-> S_pub2, Replacement |-> <<>>,
                     Exclude |-> <<>>, OptIn |-> <<>>,
                     ReplaceHistoryWithCurrent |-> <<"NOTICE">>,
                     PublicAuthorName |-> <<>>, PublicAuthorEmail |-> <<>>] >>]

\* the empty string in a field that holds a hex digest
NoHash == <<>>

ZeroTargetState ==
    [LastSyncAt |-> 0, LastError |-> "", LastPrivateRefs |-> NoHash,
     LastConfigHash |-> NoHash]

ListRefs(head) == {<<"refs/heads/main", head>>}

\* HashRefs: the digest of the sorted "ref=oid" lines; a digest is modelled by the
\* text it is taken of (no two texts of the model collide)
HashRefs(refs) == <<"sha256", refs>>

FileRank(f) == CHOOSE i \in 1..Len(CollapseFiles) : CollapseFiles[i] = f

RECURSIVE SortedInsert(_, _)
SortedInsert(sorted, x) ==
    IF sorted = <<>> THEN <<x>>
    ELSE IF FileRank(x) < FileRank(sorted[1]) THEN <<x>> \o sorted
    ELSE <<sorted[1]>> \o SortedInsert(Tail(sorted), x)

RECURSIVE SortStrings(_)
SortStrings(s) == IF s = <<>> THEN <<>> ELSE SortedInsert(SortStrings(Tail(s)), s[1])

EffectiveReplacement(t) == IF t.Replacement = <<>> THEN t.Account ELSE t.Replacement

targetConfigHashNoCollapse(cfg, t) ==
    <<"sha256",
      [PrivateUsername |-> cfg.PrivateUsername,
       TargetLabel |-> t.Label,
       Account |-> t.Account,
       Replacement |-> EffectiveReplacement(t),
       PublicName |-> t.PublicAuthorName,
       PublicEmail |-> t.PublicAuthorEmail,
       Exclude |-> SortStrings(cfg.Defaults.Exclude \o t.Exclude),
       OptIn |-> SortStrings(cfg.Defaults.OptIn \o t.OptIn),
       ExtraReplacementPairs |-> cfg.Defaults.ExtraReplacementPairs]>>

\* targetConfigHash over the merged lists as they are configured, not sorted
targetConfigHashUnsorted(cfg, t) ==
    <<"sha256",
      [PrivateUsername |-> cfg.PrivateUsername,
       TargetLabel |-> t.Label,
       Account |-> t.Account,
       Replacement |-> EffectiveReplacement(t),
       PublicName |-> t.PublicAuthorName,
       PublicEmail |-> t.PublicAuthorEmail,
       Exclude |-> cfg.Defaults.Exclude \o t.Exclude,
       OptIn |-> cfg.Defaults.OptIn \o t.OptIn,
       ReplaceHistoryWithCurrent |->
           cfg.Defaults.ReplaceHistoryWithCurrent \o t.ReplaceHistoryWithCurrent,
       ExtraReplacementPairs |-> cfg.Defaults.ExtraReplacementPairs]>>

targetConfigHash(cfg, t) ==
    <<"sha256",
      [PrivateUsername |-> cfg.PrivateUsername,
       TargetLabel |-> t.Label,
       Account |-> t.Account,
       Replacement |-> EffectiveReplacement(t),
       PublicName |-> t.PublicAuthorName,
       PublicEmail |-> t.PublicAuthorEmail,
       Exclude |-> SortStrings(cfg.Defaults.Exclude \o t.Exclude),
       OptIn |-> SortStrings(cfg.Defaults.OptIn \o t.OptIn),
       ReplaceHistoryWithCurrent |->
           SortStrings(cfg.Defaults.ReplaceHistoryWithCurrent \o t.ReplaceHistoryWithCurrent),
       ExtraReplacementPairs |-> cfg.Defaults.ExtraReplacementPairs]>>

\* the two replace_history_with_current lists that apply to target t
CollapseListsOf(cfg, t) ==
    <<cfg.Defaults.ReplaceHistoryWithCurrent, t.ReplaceHistoryWithCurrent>>

\* the rules syncTarget compiles for target t (the fields Compile reads)
TargetRules(cfg, t) ==
    [PrivateUsername |-> cfg.PrivateUsername,
     Replacement |-> EffectiveReplacement(t),
     ExtraReplacements |-> cfg.Defaults.ExtraReplacementPairs,
     ExcludePatterns |-> cfg.Defaults.Exclude \o t.Exclude,
     OptInPaths |-> cfg.Defaults.OptIn \o t.OptIn,
     PublicAuthorName |-> t.PublicAuthorName,
     PublicAuthorEmail |-> t.PublicAuthorEmail]

\* SyncRepo lines 126-128
CoerceValidateOff(v) == v

CoerceValidate(v) == IF v = FALSE THEN TRUE ELSE v

\* the skip test of SyncRepo, line 167
UpToDateIgnoringConfig(ts, refsHash, configHash) ==
    ts.LastPrivateRefs = refsHash /\ ts.LastError = ""

UpToDate(ts, refsHash, configHash) ==
    /\ ts.LastPrivateRefs = refsHash
    /\ ts.LastError = ""
    /\ ts.LastConfigHash = configHash

\* the state SyncRepo stores for a target after syncTarget returned err ("" for nil)
RecordedKeepingOldError(ts, err, at, refsHash, configHash) ==
    IF err # "" THEN [ts EXCEPT !.LastError = err]
    ELSE [ts EXCEPT !.LastSyncAt = at, !.LastPrivateRefs = refsHash,
                    !.LastConfigHash = configHash]

Recorded(ts, err, at, refsHash, configHash) ==
    IF err # "" THEN [ts EXCEPT !.LastError = err]
    ELSE [LastError |-> "", LastSyncAt |-> at, LastPrivateRefs |-> refsHash,
          LastConfigHash |-> configHash]

\* the loop index after the target at idx returned err
NextIndexStoppingOnError(idx, err, n) == IF err # "" THEN n + 1 ELSE idx + 1

NextIndex(idx, err, n) == idx + 1

\* where syncTarget goes after exportFilterImport succeeded (line 322)
AfterScrub(validate) == IF validate THEN "validate" ELSE "replace"

IdleRun ==
    [pc |-> "idle", cfg |-> RepoConfig(<<>>, <<>>), onlyTarget |-> "", validate |-> TRUE,
     refsHash |-> NoHash, idx |-> 0, results |-> <<>>, cancelled |-> FALSE]

CurTarget == run.cfg.Targets[run.idx]

InLoop == run.pc = "loop" /\ run.idx <= Len(run.cfg.Targets)

Selected(t) == run.onlyTarget = "" \/ t.Label = run.onlyTarget

\* a path of the cache or a remote that holds no repository
NoRepo == <<"none", 0>>

InitSync ==
    /\ st = [l \in LabelSet |-> ZeroTargetState]
    /\ cache = [l \in LabelSet |-> [final |-> NoRepo, tmp |-> NoRepo]]
    /\ remote = [l \in LabelSet |-> NoRepo]
    /\ run = IdleRun
    /\ log = <<>>
    /\ syncs = 0
    /\ synced = [l \in LabelSet |-> <<>>]

\* SyncRepo up to the loop: options, refs fingerprint, state.Load. The caller passes
\* the config it loaded; head is where the source branch is when the refs are listed.
StartSync(cfg, head, only, validate) ==
    /\ run.pc \in {"idle", "done"}
    /\ UNCHANGED notSyncVars
    /\ syncs < MaxSyncs
    /\ syncs' = syncs + 1
    /\ run' = [pc |-> "loop",
               cfg |-> cfg,
               onlyTarget |-> only,
               validate |-> CoerceValidate(validate),
               refsHash |-> HashRefs(ListRefs(head)),
               idx |-> 1,
               results |-> <<>>,
               cancelled |-> FALSE]
    /\ log' = <<>>
    /\ UNCHANGED <<st, cache, remote, synced>>

\* the caller cancels ctx while SyncRepo runs
Cancel ==
    /\ run.pc \notin {"idle", "done"}
    /\ UNCHANGED notSyncVars
    /\ ~run.cancelled
    /\ run' = [run EXCEPT !.cancelled = TRUE]
    /\ UNCHANGED <<st, cache, remote, log, syncs, synced>>

\* syncTarget returned err for the current target: lines 175-185 of SyncRepo
Finish(err, cacheAfter, remoteAfter, logAfter) ==
    LET t == CurTarget
        h == targetConfigHash(run.cfg, t)
    IN /\ st' = [st EXCEPT ![t.Label] = Recorded(@, err, syncs, run.refsHash, h)]
       /\ run' = [run EXCEPT
                    !.pc = "loop",
                    !.idx = NextIndex(run.idx, err, Len(run.cfg.Targets)),
                    !.results = Append(@, [TargetLabel |-> t.Label, DidWork |-> TRUE,
                                           Error |-> err])]
       /\ synced' = IF err = ""
                    THEN [synced EXCEPT ![t.Label] = CollapseListsOf(run.cfg, t)]
                    ELSE synced
       /\ cache' = cacheAfter
       /\ remote' = remoteAfter
       /\ log' = logAfter
       /\ UNCHANGED syncs

TargetNotSelected ==
    /\ InLoop
    /\ UNCHANGED notSyncVars
    /\ ~Selected(CurTarget)
    /\ run' = [run EXCEPT !.idx = @ + 1]
    /\ UNCHANGED <<st, cache, remote, log, syncs, synced>>

TargetUpToDate ==
    /\ InLoop
    /\ UNCHANGED notSyncVars
    /\ Selected(CurTarget)
    /\ UpToDate(st[CurTarget.Label], run.refsHash, targetConfigHash(run.cfg, CurTarget))
    /\ run' = [run EXCEPT
                 !.idx = @ + 1,
                 !.results = Append(@, [TargetLabel |-> CurTarget.Label, DidWork |-> FALSE,
                                        Error |-> ""])]
    /\ UNCHANGED <<st, cache, remote, log, syncs, synced>>

\* syncTarget lines 262-313: compile the rules, make the empty temporary repository
TargetBegin ==
    /\ InLoop
    /\ UNCHANGED notSyncVars
    /\ Selected(CurTarget)
    /\ ~UpToDate(st[CurTarget.Label], run.refsHash, targetConfigHash(run.cfg, CurTarget))
    /\ LET l == CurTarget.Label
           rules == Compile(TargetRules(run.cfg, CurTarget))
           begun == <<<<l, "begin">>>>
       IN IF ~rules.ok
          THEN Finish(rules.err, cache, remote, begun)
          ELSE \E ok \in BOOLEAN :
                  IF ok
                  THEN /\ run' = [run EXCEPT !.pc = "scrub"]
                       /\ cache' = [cache EXCEPT ![l].tmp = <<"empty", syncs>>]
                       /\ log' = begun
                       /\ UNCHANGED <<st, remote, syncs, synced>>
                  ELSE Finish("git init failed", [cache EXCEPT ![l].tmp = NoRepo],
                              remote, begun)

\* exportFilterImport, lines 316-319; the children are started without the context
Scrub ==
    /\ run.pc = "scrub"
    /\ UNCHANGED notSyncVars
    /\ LET l == CurTarget.Label
           done == Append(log, <<l, "export">>)
       IN \E ok \in BOOLEAN :
             IF ok
             THEN /\ run' = [run EXCEPT !.pc = AfterScrub(run.validate)]
                  /\ cache' = [cache EXCEPT ![l].tmp = <<"built", syncs>>]
                  /\ log' = done
                  /\ UNCHANGED <<st, remote, syncs, synced>>
             ELSE Finish("export filter failed", [cache EXCEPT ![l].tmp = NoRepo],
                         remote, done)

\* ValidateScrubbedRepo, lines 322-335; its git commands run under the context
Validate ==
    /\ run.pc = "validate"
    /\ UNCHANGED notSyncVars
    /\ LET l == CurTarget.Label
       IN \E ok \in BOOLEAN :
             /\ ok => ~run.cancelled
             /\ IF ok
                THEN /\ run' = [run EXCEPT !.pc = "replace"]
                     /\ cache' = [cache EXCEPT ![l].tmp = <<"validated", syncs>>]
                     /\ log' = Append(log, <<l, "validated">>)
                     /\ UNCHANGED <<st, remote, syncs, synced>>
                ELSE Finish("validation failed", [cache EXCEPT ![l].tmp = NoRepo],
                            remote, Append(log, <<l, "rejected">>))

\* lines 338-341: RemoveAll(finalBare), Rename(tmpBare, finalBare)
ReplaceCache ==
    /\ run.pc = "replace"
    /\ UNCHANGED notSyncVars
    /\ LET l == CurTarget.Label
           done == Append(log, <<l, "replace">>)
       IN \E ok \in BOOLEAN :
             IF ok
             THEN /\ run' = [run EXCEPT !.pc = "push"]
                  /\ cache' = [cache EXCEPT ![l] = [final |-> cache[l].tmp, tmp |-> NoRepo]]
                  /\ log' = done
                  /\ UNCHANGED <<st, remote, syncs, synced>>
             ELSE Finish("failed to move scrubbed repo into place",
                         [cache EXCEPT ![l].final = NoRepo], remote, done)

\* lines 344-348: PushMirror, run under the context
Push ==
    /\ run.pc = "push"
    /\ UNCHANGED notSyncVars
    /\ LET l == CurTarget.Label
           done == Append(log, <<l, "push">>)
       IN \E ok \in BOOLEAN :
             /\ ok => ~run.cancelled
             /\ IF ok
                THEN Finish("", cache, [remote EXCEPT ![l] = cache[l].final], done)
                ELSE Finish("git push --mirror failed", cache, remote, done)

\* SyncRepo line 188
Return ==
    /\ run.pc = "loop"
    /\ UNCHANGED notSyncVars
    /\ run.idx > Len(run.cfg.Targets)
    /\ run' = [IdleRun EXCEPT !.pc = "done", !.onlyTarget = run.onlyTarget,
                               !.results = run.results]
    /\ log' = <<>>
    /\ UNCHANGED <<st, cache, remote, syncs, synced>>

\* ------------------------------------------------------------------------
\* one syncTarget call at the level of contents: the source holds one branch
\* and one blob; Compile, the filter, ValidateScrubbedRepo, the mirror push
\* ------------------------------------------------------------------------

\* bounds of the content model
MaxNameLen == 2
MaxBlobLen == 3
MaxBranchLen == 3

S_refsHeads == <<"r", "e", "f", "s", "/", "h", "e", "a", "d", "s", "/">>

\* private_username as config.json may hold it: RepoConfig.Validate accepts a
\* value with surrounding space
PrivateUsernames ==
    LET bare == StringsOver({"x", "y"}, 1, MaxNameLen)
    IN bare \cup {Append(u, " ") : u \in bare}

ReplacementTokens == StringsOver({"x", "y"}, 1, MaxNameLen)

BlobContents == StringsOver({"x", "X"}, 0, MaxBlobLen)

BranchNames == StringsOver({"x", "y"}, 1, MaxBranchLen)

\* a repository: its one ref name and the content of its one blob
NoRepository == [ref |-> <<>>, blob |-> <<>>]

rewriteBytes(rules, b) == RewriteBytes(rules, b)

rewriteRef(rules, ref) == RewriteString(rules, ref)

\* what the filter writes for the source: handleBlob rewrites the data,
\* handleCommit the ref of the commit line
Filtered(rules, source) ==
    [ref |-> rewriteRef(rules, source.ref), blob |-> rewriteBytes(rules, source.blob)]

\* ValidateScrubbedRepo: nil (TRUE) or a ValidationError (FALSE). The tree of the
\* model holds no forbidden path; cat-file delivers the objects, and the contents
\* of each are searched for the username as it was passed. The header line of an
\* object (hex id, type, size) is searched too: it holds no x and no y, the
\* letters the usernames of the model are made of.
ValidateScrubbedRepo(repo, privateUsername) ==
    IF privateUsername = <<>> THEN TRUE
    ELSE ~Contains(ToLower(repo.blob), ToLower(privateUsername))

PipeOff ==
    [pc |-> "off", PrivateUsername |-> <<>>, Replacement |-> <<>>,
     source |-> NoRepository, rules |-> CompileError(""), tmp |-> NoRepository,
     published |-> NoRepository]

InitPipe ==
    \E u \in PrivateUsernames, r \in ReplacementTokens, b \in BlobContents,
       n \in BranchNames :
          pipe = [PipeOff EXCEPT !.pc = "compile", !.PrivateUsername = u,
                                 !.Replacement = r,
                                 !.source = [ref |-> S_refsHeads \o n, blob |-> b]]

\* syncTarget lines 288-301
PipeCompile ==
    /\ pipe.pc = "compile"
    /\ LET rules == Compile([PrivateUsername |-> pipe.PrivateUsername,
                             Replacement |-> pipe.Replacement,
                             ExtraReplacements |-> <<>>,
                             ExcludePatterns |-> <<>>,
                             OptInPaths |-> <<>>,
                             PublicAuthorName |-> <<>>,
                             PublicAuthorEmail |-> <<>>])
       IN pipe' = [pipe EXCEPT !.rules = rules,
                               !.pc = IF rules.ok THEN "filter" ELSE "failed"]
    /\ UNCHANGED <<syncVars, scanVars, daemonVars, filterVars, callVars, fileVars, procVars, streamVars>>

\* syncTarget lines 316-319
PipeFilter ==
    /\ pipe.pc = "filter"
    /\ pipe' = [pipe EXCEPT !.tmp = Filtered(pipe.rules, pipe.source),
                            !.pc = AfterScrub(CoerceValidate(FALSE))]
    /\ UNCHANGED <<syncVars, scanVars, daemonVars, filterVars, callVars, fileVars, procVars, streamVars>>

\* syncTarget lines 322-335
PipeValidate ==
    /\ pipe.pc = "validate"
    /\ pipe' = [pipe EXCEPT
                  !.pc = IF ValidateScrubbedRepo(pipe.tmp, pipe.PrivateUsername)
                         THEN "replace" ELSE "failed",
                  !.tmp = IF ValidateScrubbedRepo(pipe.tmp, pipe.PrivateUsername)
                          THEN pipe.tmp ELSE NoRepository]
    /\ UNCHANGED <<syncVars, scanVars, daemonVars, filterVars, callVars, fileVars, procVars, streamVars>>

\* syncTarget lines 338-348: the cache is replaced and mirrored to the remote
PipePublish ==
    /\ pipe.pc = "replace"
    /\ pipe' = [pipe EXCEPT !.published = pipe.tmp, !.tmp = NoRepository, !.pc = "done"]
    /\ UNCHANGED <<syncVars, scanVars, daemonVars, filterVars, callVars, fileVars, procVars, streamVars>>

\* ------------------------------------------------------------------------
\* the fast-export stream filter (ExportFilter)
\* ------------------------------------------------------------------------

\* bound of the filter model: the commit records of one stream
MaxCommits == 3

Digits == <<"0", "1", "2", "3", "4", "5", "6", "7", "8", "9">>

\* fmt.Sprintf("%d", n) for n >= 0
RECURSIVE Itoa(_)
Itoa(n) == IF n < 10 THEN <<Digits[n + 1]>> ELSE Itoa(n \div 10) \o <<Digits[(n % 10) + 1]>>

\* strings.LastIndex(s, c) for a one-character c: 0-based, -1 when absent
LastIndexByte(s, c) ==
    IF \E i \in 1..Len(s) : s[i] = c
    THEN (CHOOSE i \in 1..Len(s) : s[i] = c /\ \A j \in (i + 1)..Len(s) : s[j] # c) - 1
    ELSE -1

\* strings.TrimRight(s, "\n")
RECURSIVE TrimRightNewline(_)
TrimRightNewline(s) ==
    IF s # <<>> /\ s[Len(s)] = "\n" THEN TrimRightNewline(SubSeq(s, 1, Len(s) - 1)) ELSE s

\* a Go map: m[k] = v, and the test "_, ok := m[k]"
MapPut(m, k, v) == [x \in DOMAIN m \cup {k} |-> IF x = k THEN v ELSE m[x]]

HasKey(m, k) == k \in DOMAIN m

EmptyMap == <<>>

S_sp == <<" ">>
S_nl == <<"\n">>
S_M == <<"M", " ">>
S_D == <<"D", " ">>
S_R == <<"R", " ">>
S_C == <<"C", " ">>
S_deleteall == <<"d", "e", "l", "e", "t", "e", "a", "l", "l">>
S_refBob == <<"r", "e", "f", "s", "/", "h", "e", "a", "d", "s", "/", "b", "o", "b">>
S_refPub == <<"r", "e", "f", "s", "/", "h", "e", "a", "d", "s", "/", "p", "u", "b">>
S_license == <<"L">>
S_licenseText == <<"(", "c", ")", " ", "p", "u", "b">>
S_author == <<"B", "o", "b", " ", "<", "b", "o", "b", "@", "x", ".", "y", ">", " ", "1", " ", "+", "0", "0", "0", "0">>
S_message == <<"b", "y", " ", "b", "o", "b", "\n">>

\* the collapse paths handed to the rule compiler and the bytes each has at HEAD
\* L and "my L" are files of the HEAD commit, N is not
S_spacedLicense == <<"m", "y", " ", "L">>

S_notice == <<"N">>

ReplaceHistoryFiles == <<S_license, S_spacedLicense, S_notice>>

ReplaceHistoryContent == [p \in {S_license, S_spacedLicense} |-> S_licenseText]

GetReplaceHistoryFiles(rules) == ReplaceHistoryFiles

\* <<found, content>>: content is nil (found = FALSE) for a path absent at HEAD
GetReplaceHistoryContent(rules, p) ==
    IF p \in DOMAIN ReplaceHistoryContent
    THEN <<TRUE, ReplaceHistoryContent[p]>>
    ELSE <<FALSE, <<>>>>

ShouldReplaceHistory(rules, p) ==
    \E i \in 1..Len(ReplaceHistoryFiles) : normPath(ReplaceHistoryFiles[i]) = p

\* the rules the filter of the model runs under
FilterRules ==
    Compile([PrivateUsername |-> S_priv,
             Replacement |-> S_pub1,
             ExtraReplacements |-> <<>>,
             ExcludePatterns |-> <<>>,
             OptInPaths |-> <<>>,
             PublicAuthorName |-> <<>>,
             PublicAuthorEmail |-> <<>>])

\* the first synthetic mark, above the marks git fast-export gives out
SyntheticMarkBase == 900000000

NewExportFilter(r) ==
    [rules |-> r,
     markMap |-> EmptyMap,
     refRewriteMap |-> EmptyMap,
     refReverseMap |-> EmptyMap,
     replaceHistorySeenFiles |-> {},
     replaceHistoryMarks |-> EmptyMap,
     nextSyntheticMark |-> SyntheticMarkBase,
     syntheticBlobsEmitted |-> FALSE]

\* one line of the output: its keyword and the rest of it
Line(k, v) == [k |-> k, v |-> v]

\* a data section as it is written: the header "data <n>" with n the length of
\* the bytes, then the bytes
WriteData(b) == <<Line("data", Itoa(Len(b))), Line("payload", b)>>

RECURSIVE emitSyntheticBlobsFrom(_, _, _)
emitSyntheticBlobsFrom(flt, files, written) ==
    IF files = <<>> THEN [flt |-> flt, out |-> written]
    ELSE LET content == GetReplaceHistoryContent(flt.rules, files[1])
             mark == <<":">> \o Itoa(flt.nextSyntheticMark)
         IN IF ~content[1]
            THEN emitSyntheticBlobsFrom(flt, Tail(files), written)
            ELSE emitSyntheticBlobsFrom(
                     [flt EXCEPT !.nextSyntheticMark = @ + 1,
                                 !.replaceHistoryMarks = MapPut(@, files[1], mark)],
                     Tail(files),
                     written \o <<Line("blob", <<>>), Line("mark", mark)>>
                             \o WriteData(content[2]) \o <<Line("blank", <<>>)>>)

\* emitSyntheticBlobs giving out the marks without writing the blob records
emitSyntheticBlobsUnwritten(flt) ==
    [flt |-> emitSyntheticBlobsFrom(flt, GetReplaceHistoryFiles(flt.rules), <<>>).flt,
     out |-> <<>>]

emitSyntheticBlobs(flt) ==
    emitSyntheticBlobsFrom(flt, GetReplaceHistoryFiles(flt.rules), <<>>)

rewriteIdentityLine(kind, line, rules) ==
    LET rest == TrimSpace(line)
        i == LastIndexByte(rest, ">")
    IN IF i = -1 THEN Line(kind, RewriteString(rules, rest))
       ELSE Line(kind, rules.publicAuthorName \o <<" ", "<">> \o rules.publicAuthorEmail
                         \o <<">", " ">> \o TrimSpace(SubSeq(rest, i + 2, Len(rest))))

parseM(line) ==
    LET rest == TrimPrefix(line, S_M)
        i1 == IndexByte(rest, " ")
        rest2 == SubSeq(rest, i1 + 2, Len(rest))
        i2 == IndexByte(rest2, " ")
    IN IF i1 < 0 \/ i2 < 0 THEN [ok |-> FALSE, mode |-> <<>>, dataref |-> <<>>, path |-> <<>>]
       ELSE [ok |-> TRUE,
             mode |-> SubSeq(rest, 1, i1),
             dataref |-> SubSeq(rest2, 1, i2),
             path |-> TrimSpace(SubSeq(rest2, i2 + 2, Len(rest2)))]

parseTwoPaths(line, prefix) ==
    LET parts == Fields(line)
    IN IF Len(parts) # 3 \/ parts[1] # prefix THEN [ok |-> FALSE, a |-> <<>>, b |-> <<>>]
       ELSE [ok |-> TRUE, a |-> parts[2], b |-> parts[3]]

RefMismatch == "internal ref rewrite mismatch for %q"

RefCollision == "ref name collision after scrubbing: %q and %q both become %q"

\* the result of checkRefCollision when it returns nil
NoCollision(flt) == [flt |-> flt, err |-> "", args |-> <<>>]

\* checkRefCollision without the reverse map: only a changed rewrite of the same
\* original is refused
checkRefCollisionForwardOnly(flt, orig, rewritten) ==
    IF HasKey(flt.refRewriteMap, orig) /\ flt.refRewriteMap[orig] # rewritten
    THEN [flt |-> flt, err |-> RefMismatch, args |-> <<orig>>]
    ELSE NoCollision([flt EXCEPT !.refRewriteMap = MapPut(@, orig, rewritten)])

checkRefCollision(flt, orig, rewritten) ==
    IF HasKey(flt.refRewriteMap, orig)
    THEN IF flt.refRewriteMap[orig] # rewritten
         THEN [flt |-> flt, err |-> RefMismatch, args |-> <<orig>>]
         ELSE NoCollision(flt)
    ELSE LET g == [flt EXCEPT !.refRewriteMap = MapPut(@, orig, rewritten)]
         IN IF HasKey(g.refReverseMap, rewritten) /\ g.refReverseMap[rewritten] # orig
            THEN [flt |-> g, err |-> RefCollision,
                  args |-> <<g.refReverseMap[rewritten], orig, rewritten>>]
            ELSE NoCollision([g EXCEPT !.refReverseMap = MapPut(@, rewritten, orig)])

resolveCommitRef(flt, ref) ==
    LET r == TrimSpace(ref)
    IN IF HasPrefix(r, <<":">>) /\ HasKey(flt.markMap, r) THEN flt.markMap[r] ELSE r

\* paths of the source repository
P_a == <<"a", ".", "t", "x", "t">>
P_b == <<"b", ".", "t", "x", "t">>
P_bob == <<"b", "o", "b", ".", "t", "x", "t">>
P_k == <<".", "c", "l", "a", "u", "d", "e", "/", "k">>
P_j == <<".", "c", "l", "a", "u", "d", "e", "/", "j">>
P_myk == <<".", "c", "l", "a", "u", "d", "e", "/", "m", "y", " ", "k">>

\* a file operation of the input: the line as git fast-export writes it (a path
\* that holds a space is written between double quotes) and what it stands for
Op(line, kind, src, dst) == [line |-> line, kind |-> kind, src |-> src, dst |-> dst]

Op_Mbob == Op(<<"M", " ", "1", "0", "0", "6", "4", "4", " ", ":", "1", " ", "b", "o", "b", ".", "t", "x", "t", "\n">>,
    "M", P_bob, <<>>)
Op_Mk == Op(<<"M", " ", "1", "0", "0", "6", "4", "4", " ", ":", "1", " ", ".", "c", "l", "a", "u", "d", "e", "/", "k", "\n">>,
    "M", P_k, <<>>)
Op_ML == Op(<<"M", " ", "1", "0", "0", "6", "4", "4", " ", ":", "1", " ", "L", "\n">>,
    "M", S_license, <<>>)
Op_Da == Op(<<"D", " ", "a", ".", "t", "x", "t", "\n">>,
    "D", P_a, <<>>)
Op_Dk == Op(<<"D", " ", ".", "c", "l", "a", "u", "d", "e", "/", "k", "\n">>,
    "D", P_k, <<>>)
Op_DL == Op(<<"D", " ", "L", "\n">>,
    "D", S_license, <<>>)
Op_Rab == Op(<<"R", " ", "a", ".", "t", "x", "t", " ", "b", ".", "t", "x", "t", "\n">>,
    "R", P_a, P_b)
Op_Rkb == Op(<<"R", " ", ".", "c", "l", "a", "u", "d", "e", "/", "k", " ", "b", ".", "t", "x", "t", "\n">>,
    "R", P_k, P_b)
Op_Rmykb == Op(<<"R", " ", "\"", ".", "c", "l", "a", "u", "d", "e", "/", "m", "y", " ", "k", "\"", " ", "b", ".", "t", "x", "t", "\n">>,
    "R", P_myk, P_b)
Op_Ckj == Op(<<"C", " ", ".", "c", "l", "a", "u", "d", "e", "/", "k", " ", ".", "c", "l", "a", "u", "d", "e", "/", "j", "\n">>,
    "C", P_k, P_j)
Op_Ckb == Op(<<"C", " ", ".", "c", "l", "a", "u", "d", "e", "/", "k", " ", "b", ".", "t", "x", "t", "\n">>,
    "C", P_k, P_b)
Op_Ma == Op(<<"M", " ", "1", "0", "0", "6", "4", "4", " ", ":", "7", " ", "a", ".", "t", "x", "t", "\n">>,
    "M", P_a, <<>>)
Op_ML8 == Op(<<"M", " ", "1", "0", "0", "6", "4", "4", " ", ":", "8", " ", "L", "\n">>,
    "M", S_license, <<>>)
Op_RaL == Op(<<"R", " ", "a", ".", "t", "x", "t", " ", "L", "\n">>,
    "R", P_a, S_license)
Op_CaL == Op(<<"C", " ", "a", ".", "t", "x", "t", " ", "L", "\n">>,
    "C", P_a, S_license)
Op_MmyL == Op(<<"M", " ", "1", "0", "0", "6", "4", "4", " ", ":", "5", " ", "\"", "m", "y", " ", "L", "\"", "\n">>,
    "M", S_spacedLicense, <<>>)
Op_MN == Op(<<"M", " ", "1", "0", "0", "6", "4", "4", " ", ":", "6", " ", "N", "\n">>,
    "M", S_notice, <<>>)
Op_DN == Op(<<"D", " ", "N", "\n">>,
    "D", S_notice, <<>>)
Op_deleteall == Op(<<"d", "e", "l", "e", "t", "e", "a", "l", "l", "\n">>,
    "deleteall", <<>>, <<>>)

\* the file operations a commit of the input may carry
OpLists ==
    { <<>>, <<Op_Mbob>>, <<Op_ML>>, <<Op_Dk, Op_Mk>>, <<Op_Da, Op_DL>>, <<Op_Rab>>,
      <<Op_Rkb>>, <<Op_Rmykb>>, <<Op_Ckj>>, <<Op_Ckb, Op_deleteall>> }

FilterRefs == {S_refBob, S_refPub}

OpLines(ops) == [i \in 1..Len(ops) |-> ops[i].line]

Kept(flt, line) ==
    [lines |-> <<line>>, kept |-> 1, err |-> "", args |-> <<>>, flt |-> flt]

Dropped(flt) == [lines |-> <<>>, kept |-> 0, err |-> "", args |-> <<>>, flt |-> flt]

\* filterOps lines 470-509: an M line
filterM(flt, op, opTrim) ==
    LET m == parseM(opTrim)
        newPath == TrimPrefix(RewriteString(flt.rules, m.path), <<".", "/">>)
        normalizedPath == normPath(newPath)
    IN IF ~m.ok THEN Kept(flt, op)
       ELSE IF ShouldExclude(flt.rules, m.path) THEN Dropped(flt)
       ELSE IF ShouldExclude(flt.rules, newPath) THEN Dropped(flt)
       ELSE IF ShouldReplaceHistory(flt.rules, normalizedPath)
            THEN IF ~HasKey(flt.replaceHistoryMarks, normalizedPath) THEN Dropped(flt)
                 ELSE IF normalizedPath \in flt.replaceHistorySeenFiles THEN Dropped(flt)
                 ELSE Kept([flt EXCEPT !.replaceHistorySeenFiles = @ \cup {normalizedPath}],
                           S_M \o m.mode \o S_sp \o flt.replaceHistoryMarks[normalizedPath]
                               \o S_sp \o newPath \o S_nl)
       ELSE Kept(flt, S_M \o m.mode \o S_sp \o m.dataref \o S_sp \o newPath \o S_nl)

\* filterOps lines 510-529: a D line
filterD(flt, op, opTrim) ==
    LET path == TrimSpace(TrimPrefix(opTrim, S_D))
        newPath == RewriteString(flt.rules, path)
    IN IF ShouldExclude(flt.rules, path) THEN Dropped(flt)
       ELSE IF ShouldExclude(flt.rules, newPath) THEN Dropped(flt)
       ELSE IF ShouldReplaceHistory(flt.rules, normPath(newPath)) THEN Dropped(flt)
       ELSE Kept(flt, S_D \o newPath \o S_nl)

\* filterOps lines 530-564: an R line (prefix "R") or a C line (prefix "C")
filterTwoPaths(flt, op, opTrim, prefix, unsafe) ==
    LET p == parseTwoPaths(opTrim, <<prefix>>)
    IN IF ~p.ok THEN Kept(flt, op)
       ELSE IF ShouldExclude(flt.rules, p.a) /\ ~ShouldExclude(flt.rules, p.b)
            THEN [lines |-> <<>>, kept |-> 0, err |-> unsafe, args |-> <<p.a, p.b>>,
                  flt |-> flt]
       ELSE IF ShouldExclude(flt.rules, p.b) THEN Dropped(flt)
       ELSE Kept(flt, <<prefix, " ">> \o RewriteString(flt.rules, p.a) \o S_sp
                          \o RewriteString(flt.rules, p.b) \o S_nl)

UnsafeRename == "unsafe rename from excluded path to included path"

UnsafeCopy == "unsafe copy from excluded path to included path"

\* the body of the loop of filterOps for one op
filterOp(flt, op) ==
    LET opTrim == TrimRightNewline(op)
    IN IF opTrim = <<>> THEN Dropped(flt)
       ELSE IF opTrim = S_deleteall THEN Kept(flt, S_deleteall \o S_nl)
       ELSE IF HasPrefix(opTrim, S_M) THEN filterM(flt, op, opTrim)
       ELSE IF HasPrefix(opTrim, S_D) THEN filterD(flt, op, opTrim)
       ELSE IF HasPrefix(opTrim, S_R) THEN filterTwoPaths(flt, op, opTrim, "R", UnsafeRename)
       ELSE IF HasPrefix(opTrim, S_C) THEN filterTwoPaths(flt, op, opTrim, "C", UnsafeCopy)
       ELSE Kept(flt, RewriteString(flt.rules, op))

\* filterOps: [out, kept, err, args, flt]; out and kept are nil and 0 when err is set
RECURSIVE filterOpsFrom(_, _, _, _)
filterOpsFrom(flt, ops, written, kept) ==
    IF ops = <<>>
    THEN [out |-> written, kept |-> kept, err |-> "", args |-> <<>>, flt |-> flt]
    ELSE \* the value of filterOp is computed once
         CHOOSE res \in { IF r.err # ""
                          THEN [out |-> <<>>, kept |-> 0, err |-> r.err,
                                args |-> r.args, flt |-> r.flt]
                          ELSE filterOpsFrom(r.flt, Tail(ops), written \o r.lines,
                                             kept + r.kept)
                          : r \in {filterOp(flt, ops[1])} } : TRUE

filterOps(flt, ops) == filterOpsFrom(flt, ops, <<>>, 0)

\* the merge lines of an emitted commit: each resolved, the empty ones left out
RECURSIVE MergeLines(_, _)
MergeLines(flt, merges) ==
    IF merges = <<>> THEN <<>>
    ELSE LET m == resolveCommitRef(flt, merges[1])
         IN (IF m = <<>> THEN <<>> ELSE <<Line("merge", m)>>) \o MergeLines(flt, Tail(merges))

OpLinesOut(lines) == [i \in 1..Len(lines) |-> Line("op", lines[i])]

\* handleCommit lines 249-265: what the mark of a skipped commit maps to
SkippedMarkTargetUnresolved(parent, parentResolved) == parent

SkippedMarkTarget(parent, parentResolved) == parentResolved

\* handleCommit line 261: whether the commit is skipped
SkipsCommitWithParentOnly(keptOps, merges, parent) ==
    keptOps = 0 /\ Len(merges) = 0 /\ parent # <<>>

SkipsCommit(keptOps, merges, parent) == keptOps = 0 /\ Len(merges) = 0

\* the value e of the set {e}: in {g(x) : x \in {e}} the value of e is computed once
Only(S) == CHOOSE x \in S : TRUE

\* handleCommit lines 261-273: the commit is skipped
SkippedCommit(flt, r, newRef, parentResolved) ==
    [flt |-> IF r.mark # <<>>
             THEN [flt EXCEPT !.markMap =
                       MapPut(@, r.mark, SkippedMarkTarget(r.parent, parentResolved))]
             ELSE flt,
     out |-> <<Line("reset", newRef)>>
               \o (IF parentResolved # <<>> THEN <<Line("from", parentResolved)>> ELSE <<>>)
               \o <<Line("blank", <<>>)>>,
     err |-> "",
     args |-> <<>>,
     elided |-> TRUE]

\* handleCommit lines 275-318: the commit record is written
EmittedCommit(flt, r, newRef, parentResolved, filteredOps) ==
    [flt |-> flt,
     out |-> <<Line("commit", newRef)>>
               \o (IF r.mark # <<>> THEN <<Line("mark", r.mark)>> ELSE <<>>)
               \o (IF r.author # <<>>
                   THEN <<rewriteIdentityLine("author", r.author, flt.rules)>> ELSE <<>>)
               \o (IF r.committer # <<>>
                   THEN <<rewriteIdentityLine("committer", r.committer, flt.rules)>>
                   ELSE <<>>)
               \o WriteData(rewriteBytes(flt.rules, r.message))
               \o (IF parentResolved # <<>> THEN <<Line("from", parentResolved)>> ELSE <<>>)
               \o MergeLines(flt, r.merges)
               \o OpLinesOut(filteredOps)
               \o <<Line("blank", <<>>)>>,
     err |-> "",
     args |-> <<>>,
     elided |-> FALSE]

Failed(flt, err, args) ==
    [flt |-> flt, out |-> <<>>, err |-> err, args |-> args, elided |-> FALSE]

\* handleCommit from the label EMIT on, lines 249-318; flt holds the mark of r
EmitCommit(flt, r, newRef) ==
    Only({ Only({ IF fo.err # "" THEN Failed(fo.flt, fo.err, fo.args)
                  ELSE IF SkipsCommit(fo.kept, r.merges, r.parent)
                       THEN SkippedCommit(fo.flt, r, newRef, parentResolved)
                  ELSE EmittedCommit(fo.flt, r, newRef, parentResolved, fo.out)
                  : fo \in {filterOps(flt, OpLines(r.ops))} })
           : parentResolved \in {IF r.parent # <<>> THEN resolveCommitRef(flt, r.parent)
                                 ELSE <<>>} })

\* handleCommit lines 157-247, the commit line and the header of the record r
ReadHeader(col, r, newRef) ==
    IF col.err # "" THEN Failed(col.flt, col.err, col.args)
    ELSE IF r.mark # <<>>
         THEN Only({ EmitCommit(marked, r, newRef)
                     : marked \in {[col.flt EXCEPT !.markMap = MapPut(@, r.mark, r.mark)]} })
    ELSE EmitCommit(col.flt, r, newRef)

\* handleCommit for the commit record r: [flt, out, err, args, elided]
handleCommit(flt, r) ==
    Only({ Only({ ReadHeader(col, r, newRef)
                  : col \in {checkRefCollision(flt, TrimSpace(r.ref), newRef)} })
           : newRef \in {rewriteRef(flt.rules, TrimSpace(r.ref))} })

\* the commit case of the loop of Filter, lines 65-75
FilterCommit(flt, r) ==
    IF flt.syntheticBlobsEmitted THEN handleCommit(flt, r)
    ELSE Only({ Only({ [res EXCEPT !.out = syn.out \o @]
                       : res \in {handleCommit([syn.flt EXCEPT
                                                   !.syntheticBlobsEmitted = TRUE], r)} })
                : syn \in {emitSyntheticBlobs(flt)} })

\* the input of Filter: the lines of the stream in order, each with its keyword
\* and the rest of it; the bytes of a data section are one item after the
\* header that declares their length, and the newline git fast-export writes
\* after the bytes of a blob or of a tag message is one item, a blank line
BlankLine == Line("blank", <<>>)

\* what a handler returns: the filter, the lines written, the error, and the
\* index of the first line it has not read
Handled(res, next) ==
    [flt |-> res.flt, out |-> res.out, err |-> res.err, args |-> res.args,
     elided |-> res.elided, next |-> next]

Wrote(flt, lines) == [flt |-> flt, out |-> lines, err |-> "", args |-> <<>>, elided |-> FALSE]

\* handleBlob lines 126-154 from line i on: the lines before the data header
\* are passed through; after the bytes one more byte, the newline, is read
RECURSIVE handleBlobFrom(_, _, _, _)
handleBlobFrom(flt, lines, i, written) ==
    IF i > Len(lines) THEN Handled(Failed(flt, "EOF", <<>>), i)
    ELSE IF lines[i].k = "data"
    THEN IF i + 2 > Len(lines) THEN Handled(Failed(flt, "EOF", <<>>), Len(lines) + 1)
         ELSE Handled(Wrote(flt, written \o WriteData(rewriteBytes(flt.rules, lines[i + 1].v))
                                    \o <<BlankLine>>),
                      i + 3)
    ELSE handleBlobFrom(flt, lines, i + 1, Append(written, lines[i]))

\* handleBlob with the bytes declared as long as they were read
handleBlobKeepingLength(flt, lines, i) ==
    LET h == handleBlobFrom(flt, lines, i + 1, <<Line("blob", <<>>)>>)
    IN [h EXCEPT !.out = [j \in DOMAIN h.out |->
                             IF h.out[j].k = "data"
                             THEN Line("data", Itoa(Len(lines[j + i].v)))
                             ELSE h.out[j]]]

\* handleBlob for the blob record that starts at line i
handleBlob(flt, lines, i) == handleBlobFrom(flt, lines, i + 1, <<Line("blob", <<>>)>>)

\* handleCommit lines 190-247 from line i on: the lines of the commit record
\* are collected into the record r, up to the blank line that ends it; the
\* message is not followed by a newline of its own
RECURSIVE readCommitFrom(_, _, _, _)
readCommitFrom(lines, i, r, afterData) ==
    IF i > Len(lines) THEN [r |-> r, next |-> i, eof |-> TRUE]
    ELSE LET line == lines[i]
         IN IF afterData /\ line.k = "blank" THEN [r |-> r, next |-> i + 1, eof |-> FALSE]
            ELSE IF line.k = "from"
            THEN readCommitFrom(lines, i + 1, [r EXCEPT !.parent = TrimSpace(line.v)],
                                afterData)
            ELSE IF line.k = "merge"
            THEN readCommitFrom(lines, i + 1,
                                [r EXCEPT !.merges = Append(@, TrimSpace(line.v))], afterData)
            ELSE IF afterData
            THEN readCommitFrom(lines, i + 1, [r EXCEPT !.ops = Append(@, line.v)], TRUE)
            ELSE IF line.k = "mark"
            THEN readCommitFrom(lines, i + 1, [r EXCEPT !.mark = TrimSpace(line.v)], FALSE)
            ELSE IF line.k = "author"
            THEN readCommitFrom(lines, i + 1, [r EXCEPT !.author = line.v], FALSE)
            ELSE IF line.k = "committer"
            THEN readCommitFrom(lines, i + 1, [r EXCEPT !.committer = line.v], FALSE)
            ELSE IF line.k = "data"
            THEN IF i + 1 > Len(lines) THEN [r |-> r, next |-> i + 1, eof |-> TRUE]
                 ELSE readCommitFrom(lines, i + 2, [r EXCEPT !.message = lines[i + 1].v],
                                     TRUE)
            ELSE readCommitFrom(lines, i + 1, r, FALSE)

\* the fields handleTag collects, lines 329-331: each line is kept when met
\* (none: the empty tuple), the last one met replacing the one before
NoTagFields ==
    [fromLine |-> <<>>, markLine |-> <<>>, origOidLine |-> <<>>, taggerLine |-> <<>>,
     message |-> <<>>, extra |-> <<>>]

\* handleTag lines 333-378 from line i on: the loop ends at a blank line or at
\* the end of the stream; after the bytes of a data section it reads one more
\* byte, the newline, and goes on
RECURSIVE readTagFrom(_, _, _, _)
readTagFrom(rules, lines, i, t) ==
    IF i > Len(lines) THEN [t |-> t, next |-> i]
    ELSE LET line == lines[i]
         IN CASE line.k = "from" ->
                    readTagFrom(rules, lines, i + 1, [t EXCEPT !.fromLine = <<line>>])
              [] line.k = "mark" ->
                    readTagFrom(rules, lines, i + 1, [t EXCEPT !.markLine = <<line>>])
              [] line.k = "original-oid" ->
                    readTagFrom(rules, lines, i + 1, [t EXCEPT !.origOidLine = <<line>>])
              [] line.k = "tagger" ->
                    readTagFrom(rules, lines, i + 1, [t EXCEPT !.taggerLine = <<line>>])
              [] line.k = "data" ->
                    IF i + 1 > Len(lines) THEN [t |-> t, next |-> i + 1]
                    ELSE IF i + 2 > Len(lines)
                    THEN [t |-> [t EXCEPT !.message = <<rewriteBytes(rules, lines[i + 1].v)>>],
                          next |-> i + 2]
                    ELSE readTagFrom(rules, lines, i + 3,
                             [t EXCEPT !.message = <<rewriteBytes(rules, lines[i + 1].v)>>])
              [] line.k = "blank" -> [t |-> t, next |-> i + 1]
              [] OTHER -> readTagFrom(rules, lines, i + 1, [t EXCEPT !.extra = Append(@, line)])

\* handleTag lines 380-412: what is written for the fields t after the tag line
emitTag(flt, t) ==
    t.origOidLine
       \o (IF t.fromLine # <<>> /\ resolveCommitRef(flt, t.fromLine[1].v) # <<>>
           THEN <<Line("from", resolveCommitRef(flt, t.fromLine[1].v))>>
           ELSE <<>>)
       \o (IF t.taggerLine # <<>>
           THEN <<rewriteIdentityLine("tagger", t.taggerLine[1].v, flt.rules)>>
           ELSE <<>>)
       \o t.markLine
       \o t.extra
       \o (IF t.message # <<>> THEN WriteData(t.message[1]) \o <<BlankLine>> ELSE <<>>)

\* handleTag for the tag record that starts at line i
handleTag(flt, lines, i) ==
    LET origRef == TrimSpace(lines[i].v)
        newRef == rewriteRef(flt.rules, origRef)
        col == checkRefCollision(flt, origRef, newRef)
        read == readTagFrom(flt.rules, lines, i + 1, NoTagFields)
    IN IF col.err # "" THEN Handled(Failed(col.flt, col.err, col.args), i + 1)
       ELSE Handled(Wrote(col.flt, <<Line("tag", newRef)>> \o emitTag(col.flt, read.t)),
                    read.next)

\* handleReset lines 444-450: the from line written for the from line read
resetFrom(line, p1) == IF p1 # <<>> THEN <<Line("from", p1)>> ELSE <<line>>

\* handleReset taking whatever line follows for its from line
peekIsFromAlways(lines, i) == i <= Len(lines)

\* handleReset lines 438-439: whether the five bytes after the reset line are
\* "from "
peekIsFrom(lines, i) == i <= Len(lines) /\ lines[i].k = "from"

\* handleReset for the reset line at line i
handleReset(flt, lines, i) ==
    LET origRef == TrimSpace(lines[i].v)
        newRef == rewriteRef(flt.rules, origRef)
        col == checkRefCollision(flt, origRef, newRef)
    IN IF col.err # "" THEN Handled(Failed(col.flt, col.err, col.args), i + 1)
       ELSE IF i + 1 > Len(lines)
       THEN Handled(Wrote(col.flt, <<Line("reset", newRef)>>), i + 1)
       ELSE IF lines[i + 1].k = "blank"
       THEN Handled(Wrote(col.flt, <<Line("reset", newRef), BlankLine>>), i + 2)
       ELSE IF peekIsFrom(lines, i + 1)
       THEN Handled(Wrote(col.flt,
                          <<Line("reset", newRef)>>
                             \o resetFrom(lines[i + 1],
                                          resolveCommitRef(col.flt, lines[i + 1].v))),
                    i + 2)
       ELSE Handled(Wrote(col.flt, <<Line("reset", newRef)>>), i + 1)

NoRecord ==
    [kind |-> "none", ref |-> <<>>, mark |-> <<>>, author |-> <<>>, committer |-> <<>>,
     message |-> <<>>, parent |-> <<>>, merges |-> <<>>, ops |-> <<>>, at |-> 0]

CommitRecord(ref, mark, parent, merges, ops) ==
    [NoRecord EXCEPT !.kind = "commit", !.ref = ref, !.mark = mark, !.author = S_author,
                     !.committer = S_author, !.message = S_message, !.parent = parent,
                     !.merges = merges, !.ops = ops]

\* the loop of Filter, lines 60-87, for the line at i: the handler of the record
\* that starts there, or the line passed through
FilterLine(flt, lines, i) ==
    CASE lines[i].k = "blob" -> handleBlob(flt, lines, i)
      [] lines[i].k = "commit" ->
            LET read == readCommitFrom(lines, i + 1,
                                       [NoRecord EXCEPT !.kind = "commit",
                                                        !.ref = lines[i].v, !.at = i],
                                       FALSE)
                col == checkRefCollision(flt, TrimSpace(lines[i].v),
                                         rewriteRef(flt.rules, TrimSpace(lines[i].v)))
            IN IF read.eof /\ col.err = ""
               THEN Handled(Failed(flt, "EOF", <<>>), read.next)
               ELSE Handled(FilterCommit(flt, read.r), read.next)
      [] lines[i].k = "tag" -> handleTag(flt, lines, i)
      [] lines[i].k = "reset" -> handleReset(flt, lines, i)
      [] OTHER -> Handled(Wrote(flt, <<lines[i]>>), i + 1)

\* s with x after it, unless s holds x already
AppendNew(s, x) == IF \E i \in 1..Len(s) : s[i] = x THEN s ELSE Append(s, x)

InitFilter ==
    /\ ef = NewExportFilter(FilterRules)
    /\ rec = NoRecord
    /\ out = <<>>
    /\ ferr = ""
    /\ ferrArgs = <<>>
    /\ refsRead = <<>>
    /\ commits = EmptyMap

FilterOff ==
    /\ ef = NewExportFilter(CompileError(""))
    /\ rec = NoRecord
    /\ out = <<>>
    /\ ferr = ""
    /\ ferrArgs = <<>>
    /\ refsRead = <<>>
    /\ commits = EmptyMap
    /\ keepOps = FALSE

\* Filter reads the commit record r from the stream
ReadCommit(r) ==
    /\ ferr = ""
    /\ rec.kind # "eof"
    /\ \E res \in {FilterCommit(ef, r)} :
          /\ ef' = res.flt
          /\ rec' = r
          /\ out' = res.out
          /\ ferr' = res.err
          /\ ferrArgs' = res.args
          /\ refsRead' = AppendNew(refsRead, TrimSpace(r.ref))
          /\ commits' = IF res.err = ""
                        THEN MapPut(commits, r.mark,
                                    [parent |-> r.parent, merges |-> r.merges,
                                     ops |-> IF keepOps THEN r.ops ELSE <<>>,
                                     elided |-> res.elided,
                                     written |-> IF keepOps THEN res.out ELSE <<>>])
                        ELSE commits
    /\ UNCHANGED <<keepOps, syncVars, scanVars, daemonVars, scrubVars, callVars, fileVars, procVars, streamVars>>

\* Filter meets the end of the stream and returns nil
ReadEOF ==
    /\ ferr = ""
    /\ rec.kind # "eof"
    /\ rec' = [NoRecord EXCEPT !.kind = "eof"]
    /\ out' = <<>>
    /\ UNCHANGED <<ef, ferr, ferrArgs, refsRead, commits, keepOps, syncVars, scanVars, daemonVars, scrubVars, callVars, fileVars, procVars, streamVars>>

\* the marks of the commits read so far, and the mark git gives the next one
MarksRead == DOMAIN commits

FirstMark == <<":", "1">>

NextMark == <<":">> \o Itoa(Cardinality(MarksRead) + 1)

\* ------------------------------------------------------------------------
\* specifications
\* ------------------------------------------------------------------------

vars == <<syncVars, scrubVars, filterVars, callVars, fileVars, procVars, streamVars, daemonVars, scanVars>>

\* no state.json, and no state.Save so far
NoDocument == [hasTargets |-> FALSE, targetsNull |-> FALSE, targets |-> <<>>]

NoFile == [kind |-> "missing", doc |-> NoDocument]

NoState == [saved |-> FALSE, Targets |-> <<>>]

FileOff == stateFile = NoFile /\ lastSaved = NoState

\* no exportFilterImport call
NoProc ==
    [pc |-> "off", exp |-> "unstarted", left |-> 0, expOut |-> 0,
     filt |-> "unstarted", hold |-> FALSE, ferr |-> "", impStdin |-> "open",
     impIn |-> 0, imp |-> "unstarted", waits |-> <<>>, ret |-> "",
     tmpBare |-> "empty"]

ProcOff == proc = NoProc

\* no daemon
NoDaemon ==
    [pc |-> "off", startMax |-> 0, cfgMax |-> 0, cap |-> 0, sem |-> 0, todo |-> 0,
     loading |-> 0, syncing |-> 0, wg |-> 0, ticks |-> 0, errors |-> 0, returned |-> 0]

DaemonOff == daemon = NoDaemon

\* no blob scan
NoScan ==
    [pc |-> "off", blobs |-> <<>>, maxHits |-> 0, fed |-> 0, feeder |-> "off", stdin |-> 0,
     stdinOpen |-> FALSE, cat |-> "off", held |-> FALSE, stdout |-> 0, read |-> 0,
     hitCount |-> 0, ret |-> ""]

ScanOff == scan = NoScan

\* no stream
InputOff == input = [lines |-> <<>>, pos |-> 1]

\* no function is being called
NoCall == [fn |-> "", arg |-> <<>>, done |-> FALSE, out |-> <<>>]

Init == InitSync /\ ScanOff /\ DaemonOff /\ pipe = PipeOff /\ FilterOff /\ FileOff /\ ProcOff /\ InputOff /\ call = NoCall

InitScrub == InitSync /\ ScanOff /\ DaemonOff /\ InitPipe /\ FilterOff /\ FileOff /\ ProcOff /\ InputOff /\ call = NoCall

NextScrub ==
    \/ PipeCompile
    \/ PipeFilter
    \/ PipeValidate
    \/ PipePublish

SpecScrub == InitScrub /\ [][NextScrub]_vars

InitFilterSpec ==
    InitSync /\ ScanOff /\ DaemonOff /\ pipe = PipeOff /\ InitFilter /\ FileOff /\ ProcOff /\ InputOff /\ keepOps = FALSE /\ call = NoCall

NextFilter ==
    \/ \E ref \in FilterRefs, parent \in {<<>>} \cup MarksRead, ops \in OpLists :
          \E merges \in {<<>>} \cup {<<m>> : m \in (MarksRead \cap {FirstMark}) \ {parent}} :
             /\ Cardinality(MarksRead) < MaxCommits
             /\ merges # <<>> => parent # <<>>
             /\ \E r \in {CommitRecord(ref, NextMark, parent, merges, ops)} : ReadCommit(r)
    \/ ReadEOF

SpecFilter == InitFilterSpec /\ [][NextFilter]_vars

\* the file operations of the commits of a history that touches the collapse path
CollapseOps ==
    { <<Op_Ma>>, <<Op_ML>>, <<Op_ML8>>, <<Op_DL>>, <<Op_Da>>, <<Op_RaL>>, <<Op_CaL>>,
      <<Op_MmyL>>, <<Op_MN>>, <<Op_DN>> }

\* the paths of the tree of the source commit marked m (none for no commit)
RECURSIVE SourcePathsAfter(_, _)
SourcePathsAfter(paths, ops) ==
    IF ops = <<>> THEN paths
    ELSE LET op == ops[1]
             next == CASE op.kind = "M" -> paths \cup {op.src}
                       [] op.kind = "D" -> paths \ {op.src}
                       [] op.kind = "R" -> (paths \ {op.src}) \cup {op.dst}
                       [] op.kind = "C" -> paths \cup {op.dst}
                       [] OTHER -> {}
         IN SourcePathsAfter(next, Tail(ops))

RECURSIVE SourcePaths(_)
SourcePaths(m) ==
    IF m \notin MarksRead THEN {}
    ELSE SourcePathsAfter(SourcePaths(commits[m].parent), commits[m].ops)

\* git fast-export writes D, R and C only for a path the parent's tree holds
RECURSIVE Exportable(_, _)
Exportable(paths, ops) ==
    IF ops = <<>> THEN TRUE
    ELSE /\ ops[1].kind \in {"D", "R", "C"} => ops[1].src \in paths
         /\ Exportable(SourcePathsAfter(paths, <<ops[1]>>), Tail(ops))

NextCollapse ==
    \/ \E parent \in {<<>>} \cup MarksRead, ops \in CollapseOps :
          /\ Cardinality(MarksRead) < MaxCommits
          /\ Exportable(SourcePaths(parent), ops)
          /\ \E r \in {CommitRecord(S_refPub, NextMark, parent, <<>>, ops)} : ReadCommit(r)
    \/ ReadEOF

\* the history keeps the operations: the trees of the commits are told from them
InitCollapse ==
    InitSync /\ ScanOff /\ DaemonOff /\ pipe = PipeOff /\ InitFilter /\ FileOff /\ ProcOff /\ InputOff /\ keepOps = TRUE /\ call = NoCall

SpecCollapse == InitCollapse /\ [][NextCollapse]_vars

\* ------------------------------------------------------------------------
\* calls of Compile, ShouldExclude and RewriteString (internal/scrub/rules.go)
\* ------------------------------------------------------------------------

Rules(priv, repl, extra, exclude, optIn) ==
    [PrivateUsername |-> priv,
     Replacement |-> repl,
     ExtraReplacements |-> extra,
     ExcludePatterns |-> exclude,
     OptInPaths |-> optIn,
     PublicAuthorName |-> <<>>,
     PublicAuthorEmail |-> <<>>]

\* the environment files excluded by default
DefaultExcludedEnvFiles ==
    <<<<".", "e", "n", "v">>, <<".", "e", "n", "v", "r", "c">>, <<".", "e", "n", "v", ".", "l", "o", "c", "a", "l">>, <<".", "e", "n", "v", ".", "*", ".", "l", "o", "c", "a", "l">>, <<".", "e", "n", "v", ".", "d", "e", "v", "e", "l", "o", "p", "m", "e", "n", "t">>,
      <<".", "e", "n", "v", ".", "t", "e", "s", "t">>, <<".", "e", "n", "v", ".", "s", "t", "a", "g", "i", "n", "g">>, <<".", "e", "n", "v", ".", "p", "r", "o", "d", "u", "c", "t", "i", "o", "n">>, <<".", "d", "i", "r", "e", "n", "v", "/">>>>

\* the secret and credential files excluded by default
DefaultExcludedSecrets ==
    <<<<".", "s", "e", "c", "r", "e", "t", "s">>, <<"*", ".", "s", "e", "c", "r", "e", "t", "s">>, <<".", "n", "p", "m", "r", "c">>, <<".", "n", "e", "t", "r", "c">>>>

\* DefaultConfig: the exclude list of a new configuration
DefaultExclude ==
    <<<<".", "g", "i", "t", "-", "c", "o", "p", "y", "/", "*", "*">>, <<"C", "L", "A", "U", "D", "E", ".", "m", "d">>>> \o DefaultExcludedEnvFiles \o DefaultExcludedSecrets

\* paths at and under the .direnv directory of the repository root
P_direnv == <<".", "d", "i", "r", "e", "n", "v">>

P_direnvFile == <<".", "d", "i", "r", "e", "n", "v", "/", "x">>

P_direnvDeep == <<".", "d", "i", "r", "e", "n", "v", "/", "a", "/", "b">>

P_direnvSlash == <<".", "d", "i", "r", "e", "n", "v", "/">>


ExcludeLists ==
    {<<>>, DefaultExclude,
     <<<<".", "e", "n", "v">>, <<"s", "e", "c", "r", "e", "t", "s", "/", "*", "*">>, <<"d", "o", "c", "s", "/", "*", ".", "m", "d">>>>,
     <<<<"*", ".", "e", "n", "v">>, <<".", "c", "l", "a", "u", "d", "e", "/", "k">>>>}

OptInLists ==
    {<<>>,
     <<<<".", "e", "n", "v">>>>,
     <<<<"s", "e", "c", "r", "e", "t", "s", "/", "a">>>>,
     <<<<".", "c", "l", "a", "u", "d", "e", "/", "*", "*">>>>,
     <<<<".", "c", "l", "a", "u", "d", "e", "/", "k">>, <<".", "c", "l", "a", "u", "d", "e">>, <<".", "g", "i", "t", "-", "c", "o", "p", "y", "/", "c", "o", "n", "f", "i", "g", ".", "j", "s", "o", "n">>>>,
     <<<<".", "g", "i", "t", "-", "c", "o", "p", "y", "/", "*", "*">>, <<".", "g", "i", "t", "-", "c", "o", "p", "y">>, <<"d", "o", "c", "s", "/", "x", ".", "m", "d">>>>}

CallPaths ==
    {P_direnv, P_direnvFile, P_direnvDeep, P_direnvSlash,
     <<".", "c", "l", "a", "u", "d", "e">>, <<".", "c", "l", "a", "u", "d", "e", "/", "k">>, <<".", "/", ".", "c", "l", "a", "u", "d", "e", "/", "k">>, <<".", "c", "l", "a", "u", "d", "e", "/", "a", "/", "b">>, <<".", "c", "l", "a", "u", "d", "e", "x">>,
     <<".", "g", "i", "t", "-", "c", "o", "p", "y">>, <<".", "g", "i", "t", "-", "c", "o", "p", "y", "/", "c", "o", "n", "f", "i", "g", ".", "j", "s", "o", "n">>, <<".", "e", "n", "v">>, <<"s", "e", "c", "r", "e", "t", "s", "/", "a">>,
     <<"d", "o", "c", "s", "/", "x", ".", "m", "d">>, <<"d", "o", "c", "s", "/", "x", ".", "t", "x", "t">>}

ShouldExcludeCalls ==
    {[fn |-> "ShouldExclude",
      arg |-> [rules |-> Rules(S_priv, S_pub1, <<>>, ex, opt), path |-> p],
      done |-> FALSE,
      out |-> <<>>] : ex \in ExcludeLists, opt \in OptInLists, p \in CallPaths}

\* r, err := Compile(rules); r.ShouldExclude(path)
CallShouldExclude ==
    /\ call.fn = "ShouldExclude"
    /\ ~call.done
    /\ \E c \in {Compile(call.arg.rules)} :
          /\ c.ok
          /\ call' = [call EXCEPT !.done = TRUE, !.out = ShouldExclude(c, call.arg.path)]
    /\ UNCHANGED <<syncVars, scanVars, daemonVars, scrubVars, filterVars, fileVars, procVars, streamVars>>

CompilePrivates == {<<>>, <<" ">>, <<"b", "o", "b">>, <<"B", "o", "b">>, <<" ", "b", "o", "b", " ">>}

CompileReplacements == {<<>>, <<" ">>, <<"p", "u", "b">>, <<"x", "B", "O", "B", "x">>, <<"b", "o">>, <<" ", "p", "u", "b">>}

CompileExtras == {<<>>, <<<<<<"k">>, <<"v">>>>>>, <<<<<<" ">>, <<"v">>>>>>, <<<<<<"a", "(">>, <<"b">>>>>>}

CompileCalls ==
    {[fn |-> "Compile",
      arg |-> [rules |-> Rules(priv, repl, extra, <<>>, <<>>)],
      done |-> FALSE,
      out |-> <<>>] :
        priv \in CompilePrivates, repl \in CompileReplacements, extra \in CompileExtras}

\* r, err := Compile(rules)
CallCompile ==
    /\ call.fn = "Compile"
    /\ ~call.done
    /\ call' = [call EXCEPT !.done = TRUE, !.out = Compile(call.arg.rules)]
    /\ UNCHANGED <<syncVars, scanVars, daemonVars, scrubVars, filterVars, fileVars, procVars, streamVars>>


\* the private username and the extra-replacement key, in every case pattern
PrivateMatches ==
    {<<"b", "o", "b">>, <<"B", "O", "B">>, <<"B", "o", "b">>, <<"b", "O", "b">>, <<"b", "o", "B">>, <<"B", "O", "b">>, <<"b", "O", "B">>, <<"B", "o", "B">>}

S_key == <<"a", "b">>

S_keyRepl == <<"x", "Y">>

KeyMatches == {<<"a", "b">>, <<"A", "B">>, <<"A", "b">>, <<"a", "B">>}

RewriteReplacements == {<<"p", "u", "b">>, <<"P", "u", "b">>, <<"p", "U", "b">>, <<"1", "x">>}

TextsBefore == {<<>>, <<"a", "/">>}

TextsAfter == {<<>>, <<"!">>}

RewriteStringCalls ==
    {[fn |-> "RewriteString",
      arg |-> [rules |-> Rules(S_priv, repl, <<<<S_key, S_keyRepl>>>>, <<>>, <<>>),
               s |-> pre \o m \o post],
      done |-> FALSE,
      out |-> <<>>] :
        repl \in RewriteReplacements, m \in PrivateMatches \cup KeyMatches,
        pre \in TextsBefore, post \in TextsAfter}

\* r, err := Compile(rules); r.RewriteString(s)
CallRewriteString ==
    /\ call.fn = "RewriteString"
    /\ ~call.done
    /\ \E c \in {Compile(call.arg.rules)} :
          /\ c.ok
          /\ call' = [call EXCEPT !.done = TRUE, !.out = RewriteString(c, call.arg.s)]
    /\ UNCHANGED <<syncVars, scanVars, daemonVars, scrubVars, filterVars, fileVars, procVars, streamVars>>


GlobPatterns ==
    {<<>>, <<"*">>, <<"*", "*">>, <<"a", "/", "*", "*">>, <<"*", "*", "/", "b">>, <<"a", "/", "*", "/", "c">>, <<"a", "/", "*", "*", "/", "c">>, <<"*", "*", "/", "*", "*">>, <<"*", ".", "m", "d">>,
     <<"d", "o", "c", "s", "/", "*", ".", "m", "d">>, <<"a", "?">>, <<"a", "/">>, <<".", "/", "a", "/", "*">>}

GlobPaths ==
    {<<>>, <<"a">>, <<"b">>, <<"a", "b">>, <<"a", "/", "b">>, <<"a", "/", "c">>, <<"a", "/", "b", "/", "c">>, <<"a", "/">>, <<"x", ".", "m", "d">>, <<"d", "o", "c", "s", "/", "x", ".", "m", "d">>,
     <<"d", "o", "c", "s", "/", "a", "/", "x", ".", "m", "d">>, <<" ", "a", "/", "b">>, <<"a", "\\", "b">>}

MatchGlobCalls ==
    {[fn |-> "matchGlob",
      arg |-> [pattern |-> pat, target |-> p],
      done |-> FALSE,
      out |-> <<>>] : pat \in GlobPatterns, p \in GlobPaths}

\* matchGlob(pattern, target)
CallMatchGlob ==
    /\ call.fn = "matchGlob"
    /\ ~call.done
    /\ call' = [call EXCEPT !.done = TRUE,
                            !.out = matchGlob(call.arg.pattern, call.arg.target)]
    /\ UNCHANGED <<syncVars, scanVars, daemonVars, scrubVars, filterVars, fileVars, procVars, streamVars>>


\* bound: the entries of the extra-replacement map
MaxExtra == 2

\* extra replacements: two whose key and value overlap, one apart from them
ExtraPairs == {<<<<"a", "b">>, <<"c", "d">>>>, <<<<"c", "d">>, <<"e", "f">>>>, <<<<"k">>, <<"v">>>>}

\* the extra replacements in the order the user configured them: no key twice
ConfiguredExtras ==
    UNION {{ps \in [1..n -> ExtraPairs] : \A i, j \in 1..n : ps[i] = ps[j] => i = j} :
              n \in 0..MaxExtra}

RangeOrders(n) == {f \in [1..n -> 1..n] : \A i, j \in 1..n : f[i] = f[j] => i = j}

ExtraTexts == {<<"a", "b">>, <<"c", "d", " ", "k">>, <<"b", "o", "b", " ", "a", "b">>}

OrderCalls ==
    {[fn |-> "CompileRewrite",
      arg |-> [extra |-> ps, s |-> t],
      done |-> FALSE,
      out |-> <<>>] : ps \in ConfiguredExtras, t \in ExtraTexts}

\* r, err := Compile(rules); r.RewriteString(s), with rules.ExtraReplacements the
\* Go map of the configured pairs: the range loop of Compile (line 126) meets the
\* entries of the map in an order the runtime chooses
CallCompileRewrite ==
    /\ call.fn = "CompileRewrite"
    /\ ~call.done
    /\ \E order \in RangeOrders(Len(call.arg.extra)) :
          LET ranged == [i \in 1..Len(call.arg.extra) |-> call.arg.extra[order[i]]]
              c == Compile(Rules(S_priv, S_pub1, ranged, <<>>, <<>>))
          IN call' = [call EXCEPT !.done = TRUE, !.out = RewriteString(c, call.arg.s)]
    /\ UNCHANGED <<syncVars, scanVars, daemonVars, scrubVars, filterVars, fileVars, procVars, streamVars>>


RuleCalls ==
    ShouldExcludeCalls \cup CompileCalls \cup RewriteStringCalls \cup MatchGlobCalls
        \cup OrderCalls

InitRules == InitSync /\ ScanOff /\ DaemonOff /\ pipe = PipeOff /\ FilterOff /\ FileOff /\ ProcOff /\ InputOff /\ call \in RuleCalls

NextRules ==
    \/ CallShouldExclude
    \/ CallCompile
    \/ CallRewriteString
    \/ CallMatchGlob
    \/ CallCompileRewrite

SpecRules == InitRules /\ [][NextRules]_vars

\* ------------------------------------------------------------------------
\* the sync command: cmdSync (internal/cli/cmd_sync.go) and main
\* ------------------------------------------------------------------------

\* what SyncRepo appends for one target: up to date, synced, or failed
ResultsFor(l) ==
    {[TargetLabel |-> l, DidWork |-> FALSE, Error |-> ""],
     [TargetLabel |-> l, DidWork |-> TRUE, Error |-> ""],
     [TargetLabel |-> l, DidWork |-> TRUE, Error |-> "git push --mirror failed"]}

\* the results of one SyncRepo call: one Result for each selected target, in the
\* order of cfg.Targets
ResultLists ==
    {<<r>> : r \in UNION {ResultsFor(l) : l \in LabelSet}}
        \cup {<<r1, r2>> : r1 \in ResultsFor(Labels[1]), r2 \in ResultsFor(Labels[2])}

\* parseSyncArgs: --audit-remote implies --audit
SyncCmdOptions ==
    {o \in [AuditAfterSync : BOOLEAN, AuditRemote : BOOLEAN] :
        o.AuditRemote => o.AuditAfterSync}

\* the loop of cmdSync over results[i..], lines 38-94: localOk[l] and remoteOk[l]
\* tell whether the audit of the cache of l, and of the clone of its remote, succeed
RECURSIVE cmdSyncFrom(_, _, _, _, _)
cmdSyncFrom(results, i, opts, localOk, remoteOk) ==
    IF i > Len(results) THEN ""
    ELSE LET r == results[i]
         IN IF r.Error # "" \/ ~opts.AuditAfterSync
            THEN cmdSyncFrom(results, i + 1, opts, localOk, remoteOk)
            ELSE IF ~localOk[r.TargetLabel] THEN "audit failed (local)"
            ELSE IF opts.AuditRemote /\ ~remoteOk[r.TargetLabel] THEN "audit failed (remote)"
            ELSE cmdSyncFrom(results, i + 1, opts, localOk, remoteOk)

\* cmdSync after SyncRepo returned (results, syncErr)
cmdSync(syncErr, results, opts, localOk, remoteOk) ==
    IF syncErr # "" THEN syncErr
    ELSE cmdSyncFrom(results, 1, opts, localOk, remoteOk)

\* main: os.Exit(1) when cli.Run returns an error
ExitStatus(err) == IF err # "" THEN 1 ELSE 0

CmdSyncCalls ==
    {[fn |-> "cmdSync",
      arg |-> [syncErr |-> "", results |-> rs, opts |-> o,
               localOk |-> lo, remoteOk |-> ro],
      done |-> FALSE,
      out |-> <<>>] :
        rs \in ResultLists, o \in SyncCmdOptions,
        lo \in [LabelSet -> BOOLEAN], ro \in [LabelSet -> BOOLEAN]}
    \cup
    {[fn |-> "cmdSync",
      arg |-> [syncErr |-> e, results |-> <<>>, opts |-> o,
               localOk |-> [l \in LabelSet |-> TRUE],
               remoteOk |-> [l \in LabelSet |-> TRUE]],
      done |-> FALSE,
      out |-> <<>>] :
        e \in {"duplicate target label", "git for-each-ref failed"},
        o \in SyncCmdOptions}

\* git-copy sync runs to its exit
CallCmdSync ==
    /\ call.fn = "cmdSync"
    /\ ~call.done
    /\ \E err \in {cmdSync(call.arg.syncErr, call.arg.results, call.arg.opts,
                           call.arg.localOk, call.arg.remoteOk)} :
          call' = [call EXCEPT !.done = TRUE,
                               !.out = [err |-> err, status |-> ExitStatus(err)]]
    /\ UNCHANGED <<syncVars, scanVars, daemonVars, scrubVars, filterVars, fileVars, procVars, streamVars>>

InitCli == InitSync /\ ScanOff /\ DaemonOff /\ pipe = PipeOff /\ FilterOff /\ FileOff /\ ProcOff /\ InputOff /\ call \in CmdSyncCalls

NextCli ==
    \/ CallCmdSync

SpecCli == InitCli /\ [][NextCli]_vars


\* ------------------------------------------------------------------------
\* RepoConfig.Validate (internal/config/repo_config.go) and calls of
\* targetConfigHash
\* ------------------------------------------------------------------------

RepoConfigVersion == 1

Refused(c, err) == [ok |-> FALSE, err |-> err, cfg |-> c]

\* the loop of Validate over c.Targets[i..]; seen holds the lower-cased labels of
\* the targets before i. Validate writes the trimmed label and the default
\* history mode into the config it is called on.
RECURSIVE ValidateTargets(_, _, _)
ValidateTargets(c, i, seen) ==
    IF i > Len(c.Targets) THEN [ok |-> TRUE, err |-> "", cfg |-> c]
    ELSE LET label == TrimSpace(c.Targets[i].Label)
             labelled == [c EXCEPT !.Targets[i].Label = label]
             t == labelled.Targets[i]
         IN IF label = <<>> THEN Refused(labelled, "target[%d].label is required")
            ELSE IF ToLower(label) \in seen
                 THEN Refused(labelled, "duplicate target label: %s")
            ELSE IF TrimSpace(t.RepoURL) = <<>>
                 THEN Refused(labelled, "target[%s].repo_url is required")
            ELSE IF TrimSpace(t.Account) = <<>>
                 THEN Refused(labelled, "target[%s].account is required")
            ELSE IF TrimSpace(t.RepoName) = <<>>
                 THEN Refused(labelled, "target[%s].repo_name is required")
            ELSE ValidateTargets(
                     [labelled EXCEPT !.Targets[i].InitialHistoryMode =
                                          IF @ = <<>> THEN <<"f", "u", "l", "l">> ELSE @],
                     i + 1, seen \cup {ToLower(label)})

\* c.Validate(): ok, the error, and the config as Validate leaves it
ValidateConfig(c) ==
    IF c.Version # RepoConfigVersion /\ c.Version # 0
    THEN Refused(c, "unsupported config version: %d")
    ELSE IF TrimSpace(c.PrivateUsername) = <<>>
         THEN Refused(c, "private_username is required")
    ELSE ValidateTargets(
             [c EXCEPT !.HeadBranch = IF TrimSpace(@) = <<>> THEN <<"m", "a", "i", "n">> ELSE @],
             1, {})

ConfigTargets ==
    [Label : {<<>>, <<"a">>, <<"A">>, <<" ", "a">>},
     RepoURL : {<<>>, <<"u">>},
     Account : {<<" ">>, <<"x">>},
     RepoName : {<<>>, <<"r">>},
     InitialHistoryMode : {<<>>, <<"f", "u", "t", "u", "r", "e">>, <<"b", "o", "g", "u", "s">>}]

SecondTargets ==
    [Label : {<<"a">>, <<"A", " ">>, <<"b">>},
     RepoURL : {<<"u">>},
     Account : {<<"x">>},
     RepoName : {<<"r">>},
     InitialHistoryMode : {<<"f", "u", "l", "l">>}]

ConfigVersions == {0, RepoConfigVersion, RepoConfigVersion + 1}

ValidateCalls ==
    {[fn |-> "Validate",
      arg |-> [c |-> [Version |-> v, PrivateUsername |-> u, HeadBranch |-> <<>>,
                      Targets |-> ts]],
      done |-> FALSE,
      out |-> <<>>] :
        v \in ConfigVersions, u \in {<<" ">>, S_priv},
        ts \in {<<>>} \cup {<<t>> : t \in ConfigTargets}
                      \cup {<<t1, t2>> : t1 \in ConfigTargets, t2 \in SecondTargets}}

\* err := cfg.Validate()
CallValidate ==
    /\ call.fn = "Validate"
    /\ ~call.done
    /\ call' = [call EXCEPT !.done = TRUE, !.out = ValidateConfig(call.arg.c)]
    /\ UNCHANGED <<syncVars, scanVars, daemonVars, scrubVars, filterVars, fileVars, procVars, streamVars>>

\* the values of an exclude, opt_in or replace_history_with_current list of the
\* defaults a caller may pass
OrderLists == {<<>>, <<"NOTICE">>, <<"LICENSE", "NOTICE">>, <<"NOTICE", "LICENSE">>}

HashConfig(exclude, optIn, collapse) ==
    [RepoConfig(collapse, <<>>) EXCEPT !.Defaults.Exclude = exclude,
                                       !.Defaults.OptIn = optIn]

HashConfigs == {HashConfig(ex, opt, col) : ex \in OrderLists, opt \in OrderLists, col \in OrderLists}

\* the fingerprints of target idx under two configs
HashCalls ==
    {[fn |-> "targetConfigHash",
      arg |-> [cfg |-> a, other |-> b, idx |-> i],
      done |-> FALSE,
      out |-> <<>>] : a \in HashConfigs, b \in HashConfigs, i \in 1..Len(Labels)}

\* targetConfigHash(cfg, cfg.Targets[idx]) and targetConfigHash(other, other.Targets[idx])
CallTargetConfigHash ==
    /\ call.fn = "targetConfigHash"
    /\ ~call.done
    /\ call' = [call EXCEPT
                  !.done = TRUE,
                  !.out = <<targetConfigHash(call.arg.cfg, call.arg.cfg.Targets[call.arg.idx]),
                            targetConfigHash(call.arg.other,
                                             call.arg.other.Targets[call.arg.idx])>>]
    /\ UNCHANGED <<syncVars, scanVars, daemonVars, scrubVars, filterVars, fileVars, procVars, streamVars>>

\* filepath.Join of a directory and a name that holds no separator and is not a
\* dot element: the two with one separator between them
Join(dir, name) == dir \o <<"/">> \o name

\* syncTarget lines 307-308: the cached repository of a target and its temporary
finalBare(cacheDir, label) == Join(cacheDir, label \o <<".", "g", "i", "t">>)

tmpBare(cacheDir, label) == Join(cacheDir, label \o <<".", "t", "m", "p", ".", "g", "i", "t">>)

S_cacheDir == <<"c", "a", "c", "h", "e", "/", "k", "e", "y">>

DirLabels == {<<"a">>, <<"b">>, <<"B">>, <<"a", ".", "t", "m", "p">>, <<" ", "a">>}

DirTarget(label) ==
    [Label |-> label, RepoURL |-> <<"u">>, Account |-> <<"x">>, RepoName |-> <<"r">>,
     InitialHistoryMode |-> <<>>]

DirCalls ==
    {[fn |-> "syncTargetDirs",
      arg |-> [c |-> [Version |-> RepoConfigVersion, PrivateUsername |-> S_priv,
                      HeadBranch |-> <<>>, Targets |-> <<DirTarget(l1), DirTarget(l2)>>]],
      done |-> FALSE,
      out |-> <<>>] : l1 \in DirLabels, l2 \in DirLabels}

\* cfg.Validate() and then, for each target of the config, the two directories
\* syncTarget works on
CallSyncTargetDirs ==
    /\ call.fn = "syncTargetDirs"
    /\ ~call.done
    /\ LET v == ValidateConfig(call.arg.c)
       IN call' = [call EXCEPT
                     !.done = TRUE,
                     !.out = [ok |-> v.ok,
                              dirs |-> [i \in 1..Len(v.cfg.Targets) |->
                                          [final |-> finalBare(S_cacheDir, v.cfg.Targets[i].Label),
                                           tmp |-> tmpBare(S_cacheDir, v.cfg.Targets[i].Label)]]]]
    /\ UNCHANGED <<syncVars, scanVars, daemonVars, scrubVars, filterVars, fileVars, procVars, streamVars>>


InitConfig == InitSync /\ ScanOff /\ DaemonOff /\ pipe = PipeOff /\ FilterOff /\ FileOff /\ ProcOff /\ InputOff /\ call \in ValidateCalls \cup HashCalls \cup DirCalls

NextConfig ==
    \/ CallValidate
    \/ CallTargetConfigHash
    \/ CallSyncTargetDirs

SpecConfig == InitConfig /\ [][NextConfig]_vars


\* ------------------------------------------------------------------------
\* the audit of a scrubbed repository: AuditBareRepo (internal/audit)
\* ------------------------------------------------------------------------

\* bound of the audit model: the most commits that touch one path
MaxTouch == 2

DefaultMaxHits == 20

\* the names the audit options may hold, in the order of sort.Strings
AuditNames == <<<<".", "e", "n", "v">>, <<"C", "L", "A", "U", "D", "E", ".", "m", "d">>, <<"L", "I", "C", "E", "N", "S", "E">>, <<"N", "O", "T", "I", "C", "E">>>>

NameRank(x) == CHOOSE i \in 1..Len(AuditNames) : AuditNames[i] = x

\* the trimmed entries of xs that are not empty, each once, in the order met
RECURSIVE TrimmedOnce(_, _)
TrimmedOnce(xs, seen) ==
    IF xs = <<>> THEN <<>>
    ELSE LET x == TrimSpace(xs[1])
         IN IF x = <<>> \/ x \in seen THEN TrimmedOnce(Tail(xs), seen)
            ELSE <<x>> \o TrimmedOnce(Tail(xs), seen \cup {x})

RECURSIVE InsertByRank(_, _)
InsertByRank(sorted, x) ==
    IF sorted = <<>> THEN <<x>>
    ELSE IF NameRank(x) < NameRank(sorted[1]) THEN <<x>> \o sorted
    ELSE <<sorted[1]>> \o InsertByRank(Tail(sorted), x)

RECURSIVE SortByRank(_)
SortByRank(s) == IF s = <<>> THEN <<>> ELSE InsertByRank(SortByRank(Tail(s)), s[1])

normalizeStringList(xs) == SortByRank(TrimmedOnce(xs, {}))

\* the forbidden strings trimmed, without the empty ones and without those met
\* before; met before is told in lower case when CaseInsensitive is set
RECURSIVE normalizeStrings(_, _, _)
normalizeStrings(xs, fold, seen) ==
    IF xs = <<>> THEN <<>>
    ELSE LET s == TrimSpace(xs[1])
             key == IF fold THEN ToLower(s) ELSE s
         IN IF s = <<>> \/ key \in seen THEN normalizeStrings(Tail(xs), fold, seen)
            ELSE <<s>> \o normalizeStrings(Tail(xs), fold, seen \cup {key})

normalizeOptions(opts) ==
    [opts EXCEPT
       !.MaxHits = IF @ <= 0 THEN DefaultMaxHits ELSE @,
       !.ForbiddenStrings = normalizeStrings(@, opts.CaseInsensitive, {}),
       !.ForbiddenPaths = normalizeStringList(@),
       !.ReplaceHistoryWithCurrentFiles = normalizeStringList(@)]

Finding(kind, path, ref) == [Kind |-> kind, Path |-> path, Ref |-> ref]

\* step 1 for the forbidden path p: git rev-list --all -- p lists repo.touched[p]
\* commits; one finding for each of the first MaxHits of them
PathFindings(repo, opts, p) ==
    [i \in 1..(IF repo.touched[p] < opts.MaxHits THEN repo.touched[p] ELSE opts.MaxHits)
        |-> Finding("path-history", p, <<"commit", p, i>>)]

RECURSIVE AllPathFindings(_, _, _)
AllPathFindings(repo, opts, paths) ==
    IF paths = <<>> THEN <<>>
    ELSE PathFindings(repo, opts, paths[1]) \o AllPathFindings(repo, opts, Tail(paths))

\* step 2: one finding for each listed file whose content at its first commit is
\* not its content at HEAD
RECURSIVE MismatchFindings(_, _)
MismatchFindings(repo, files) ==
    IF files = <<>> THEN <<>>
    ELSE (IF files[1] \in repo.mismatch
          THEN <<Finding("replace-history-mismatch", files[1], <<"commit", files[1], 1>>)>>
          ELSE <<>>)
         \o MismatchFindings(repo, Tail(files))

HasNeedle(content, needles, fold) ==
    \E i \in 1..Len(needles) :
        Contains(IF fold THEN ToLower(content) ELSE content,
                 IF fold THEN ToLower(needles[i]) ELSE needles[i])

\* the loop of scanReachableBlobsForStrings over blobs[i..], hitCount hits so far
RECURSIVE ScanBlobs(_, _, _, _)
ScanBlobs(blobs, i, opts, hitCount) ==
    IF i > Len(blobs) THEN <<>>
    ELSE IF HasNeedle(blobs[i], opts.ForbiddenStrings, opts.CaseInsensitive)
         THEN <<Finding("string-hit", <<>>, <<"blob", blobs[i]>>)>>
                 \o (IF hitCount + 1 >= opts.MaxHits THEN <<>>
                     ELSE ScanBlobs(blobs, i + 1, opts, hitCount + 1))
    ELSE IF hitCount >= opts.MaxHits THEN <<>>
    ELSE ScanBlobs(blobs, i + 1, opts, hitCount)

\* AuditBareRepo on the repository repo; fails names the git command that fails
AuditBareRepo(repo, options, fails) ==
    LET opts == normalizeOptions(options)
        paths == AllPathFindings(repo, opts, opts.ForbiddenPaths)
        files == MismatchFindings(repo, opts.ReplaceHistoryWithCurrentFiles)
        scanned == IF Len(opts.ForbiddenStrings) > 0
                   THEN ScanBlobs(repo.blobs, 1, opts, 0) ELSE <<>>
    IN IF fails = "rev-list" /\ Len(opts.ForbiddenPaths) > 0
       THEN [err |-> "git rev-list failed", Findings |-> <<>>, Succeeded |-> FALSE]
       ELSE IF fails = "objects" /\ Len(opts.ForbiddenStrings) > 0
            THEN [err |-> "git rev-list --objects failed", Findings |-> <<>>,
                  Succeeded |-> FALSE]
       ELSE [err |-> "",
             Findings |-> paths \o files \o scanned,
             Succeeded |-> Len(paths \o files \o scanned) = 0]

AuditRepos ==
    [touched : [{<<".", "e", "n", "v">>, <<"C", "L", "A", "U", "D", "E", ".", "m", "d">>} -> 0..MaxTouch],
     mismatch : SUBSET {<<"L", "I", "C", "E", "N", "S", "E">>, <<"N", "O", "T", "I", "C", "E">>},
     blobs : {<<>>, <<<<"a", " ", "b", "o", "b">>>>, <<<<"x">>, <<"B", "o", "b">>, <<"b", "o", "b">>>>, <<<<"b", "o", "b">>, <<"b", "O", "b">>, <<"B", "O", "B">>>>}]

AuditOptions ==
    [ForbiddenPaths : {<<>>, <<<<".", "e", "n", "v">>>>, <<<<"C", "L", "A", "U", "D", "E", ".", "m", "d">>, <<".", "e", "n", "v">>>>,
                       <<<<".", "e", "n", "v">>, <<" ", ".", "e", "n", "v">>, <<"C", "L", "A", "U", "D", "E", ".", "m", "d">>>>},
     ForbiddenStrings : {<<>>, <<<<"b", "o", "b">>, <<" ", "B", "O", "B">>>>},
     CaseInsensitive : BOOLEAN,
     ReplaceHistoryWithCurrentFiles : {<<>>, <<<<"N", "O", "T", "I", "C", "E">>, <<"L", "I", "C", "E", "N", "S", "E">>>>},
     MaxHits : {0, 1, 2}]

AuditCalls ==
    {[fn |-> "AuditBareRepo",
      arg |-> [repo |-> r, opts |-> o, fails |-> f],
      done |-> FALSE,
      out |-> <<>>] : r \in AuditRepos, o \in AuditOptions, f \in {"", "rev-list", "objects"}}

\* rep, err := audit.AuditBareRepo(ctx, repo, opts)
CallAuditBareRepo ==
    /\ call.fn = "AuditBareRepo"
    /\ ~call.done
    /\ call' = [call EXCEPT !.done = TRUE,
                            !.out = AuditBareRepo(call.arg.repo, call.arg.opts, call.arg.fails)]
    /\ UNCHANGED <<syncVars, scanVars, daemonVars, scrubVars, filterVars, fileVars, procVars, streamVars>>

InitAudit == InitSync /\ ScanOff /\ DaemonOff /\ pipe = PipeOff /\ FilterOff /\ FileOff /\ ProcOff /\ InputOff /\ call \in AuditCalls

NextAudit ==
    \/ CallAuditBareRepo

SpecAudit == InitAudit /\ [][NextAudit]_vars


\* ---------------------------------------------------------------------------
\* package state: state.json written by Save and read by Load
\* ---------------------------------------------------------------------------

\* a Go map: nil, or its entries
GoMap(isNil, m) == [nil |-> isNil, m |-> m]

NilMap == GoMap(TRUE, <<>>)

\* the keys json.Marshal writes for a TargetState: last_sync_at always, the
\* others (omitempty) only when they are not the empty string
MarshalKeys(ts) ==
    {"last_sync_at"}
        \cup (IF ts.LastError # "" THEN {"last_error"} ELSE {})
        \cup (IF ts.LastPrivateRefs # NoHash THEN {"last_private_refs"} ELSE {})
        \cup (IF ts.LastPublicPush # NoHash THEN {"last_public_push"} ELSE {})
        \cup (IF ts.LastConfigHash # NoHash THEN {"last_config_hash"} ELSE {})

MarshalTargetState(ts) ==
    [k \in MarshalKeys(ts) |->
        CASE k = "last_sync_at" -> ts.LastSyncAt
          [] k = "last_error" -> ts.LastError
          [] k = "last_private_refs" -> ts.LastPrivateRefs
          [] k = "last_public_push" -> ts.LastPublicPush
          [] OTHER -> ts.LastConfigHash]

\* json.MarshalIndent of a RepoState: a nil map is written as null
Marshal(s) ==
    [hasTargets |-> TRUE,
     targetsNull |-> s.Targets.nil,
     targets |-> [l \in DOMAIN s.Targets.m |-> MarshalTargetState(s.Targets.m[l])]]

\* a key json.Unmarshal does not find leaves the field at its zero value
UnmarshalTargetState(obj) ==
    [LastSyncAt |-> IF "last_sync_at" \in DOMAIN obj THEN obj["last_sync_at"] ELSE 0,
     LastError |-> IF "last_error" \in DOMAIN obj THEN obj["last_error"] ELSE "",
     LastPrivateRefs |->
        IF "last_private_refs" \in DOMAIN obj THEN obj["last_private_refs"] ELSE NoHash,
     LastPublicPush |->
        IF "last_public_push" \in DOMAIN obj THEN obj["last_public_push"] ELSE NoHash,
     LastConfigHash |->
        IF "last_config_hash" \in DOMAIN obj THEN obj["last_config_hash"] ELSE NoHash]

\* json.Unmarshal into a zero RepoState: a missing or null "targets" leaves the
\* map nil
Unmarshal(doc) ==
    [Targets |->
        IF ~doc.hasTargets \/ doc.targetsNull
        THEN NilMap
        ELSE GoMap(FALSE, [l \in DOMAIN doc.targets |->
                              UnmarshalTargetState(doc.targets[l])])]

\* Load without its last step: a null target map stays nil
LoadKeepingNil(f) ==
    IF f.kind = "missing"
    THEN [err |-> "", s |-> [Targets |-> GoMap(FALSE, <<>>)]]
    ELSE IF f.kind = "unreadable"
    THEN [err |-> "read", s |-> [Targets |-> NilMap]]
    ELSE IF f.kind = "garbage"
    THEN [err |-> "unmarshal", s |-> [Targets |-> NilMap]]
    ELSE [err |-> "", s |-> Unmarshal(f.doc)]

\* Load as released: what it returns for the file f
Load(f) ==
    IF f.kind = "missing"
    THEN [err |-> "", s |-> [Targets |-> GoMap(FALSE, <<>>)]]
    ELSE IF f.kind = "unreadable"
    THEN [err |-> "read", s |-> [Targets |-> NilMap]]
    ELSE IF f.kind = "garbage"
    THEN [err |-> "unmarshal", s |-> [Targets |-> NilMap]]
    ELSE LET s == Unmarshal(f.doc)
         IN  [err |-> "",
              s |-> IF s.Targets.nil THEN [Targets |-> GoMap(FALSE, <<>>)] ELSE s]

\* the bytes Save hands to os.WriteFile
SaveBytes(s) ==
    Marshal([Targets |-> IF s.Targets.nil THEN GoMap(FALSE, <<>>) ELSE s.Targets])

\* the values of a target's entry in state.json
SavedErrors == {"", "push failed"}

SavedHashes == {NoHash, HashRefs(ListRefs(1))}

SavedTargetStates ==
    [LastSyncAt : {1}, LastError : SavedErrors, LastPrivateRefs : SavedHashes,
     LastPublicPush : {NoHash}, LastConfigHash : SavedHashes]

\* the states Save is given: a nil map, or entries for some of the labels
SavedStates ==
    {[Targets |-> NilMap]}
        \cup {[Targets |-> GoMap(FALSE, m)] :
                m \in UNION {[ls -> SavedTargetStates] : ls \in SUBSET LabelSet}}

\* the state.json files Load may meet before any Save: none, one that cannot be
\* read, one that is not JSON, one without "targets", one whose "targets" is null
FoundFiles ==
    {NoFile,
     [kind |-> "unreadable", doc |-> NoDocument],
     [kind |-> "garbage", doc |-> NoDocument],
     [kind |-> "json", doc |-> NoDocument],
     [kind |-> "json", doc |-> [hasTargets |-> TRUE, targetsNull |-> TRUE,
                                targets |-> <<>>]]}

\* Save(repoPath, s): MkdirAll or the opening of the file fails and the file is
\* as before, or WriteFile fails after truncating it, or the bytes are written
CallSave ==
    \E s \in SavedStates, io \in {"ok", "nowrite", "truncated"} :
        /\ stateFile' =
              CASE io = "ok" -> [kind |-> "json", doc |-> SaveBytes(s)]
                [] io = "truncated" -> [kind |-> "garbage", doc |-> NoDocument]
                [] OTHER -> stateFile
        /\ lastSaved' =
              IF io = "ok"
              THEN [saved |-> TRUE,
                    Targets |-> IF s.Targets.nil THEN <<>> ELSE s.Targets.m]
              ELSE lastSaved
        /\ call' = [fn |-> "Save", arg |-> <<>>, done |-> TRUE,
                    out |-> [err |-> IF io = "ok" THEN "" ELSE "write",
                             s |-> [Targets |-> NilMap]]]
        /\ UNCHANGED <<syncVars, scanVars, daemonVars, scrubVars, filterVars, procVars, streamVars>>

\* Load(repoPath)
CallLoad ==
    /\ call' = [fn |-> "Load", arg |-> <<>>, done |-> TRUE, out |-> Load(stateFile)]
    /\ UNCHANGED <<syncVars, scanVars, daemonVars, scrubVars, filterVars, fileVars, procVars, streamVars>>

InitState ==
    /\ InitSync /\ ScanOff /\ DaemonOff /\ pipe = PipeOff /\ FilterOff /\ ProcOff /\ InputOff
    /\ stateFile \in FoundFiles
    /\ lastSaved = NoState
    /\ call = NoCall

NextState ==
    \/ CallSave
    \/ CallLoad

SpecState == InitState /\ [][NextState]_vars


\* ---------------------------------------------------------------------------
\* exportFilterImport as processes: git fast-export writes its stream into
\* a pipe, the filter goroutine reads it and writes into the stdin pipe of
\* git fast-import, and the driver starts and reaps them
\* ---------------------------------------------------------------------------

\* the longest export stream, in records
MaxChunks == 3

\* how many records a pipe holds before a write to it blocks
PipeCap == 1

\* Process.Kill: ends a running process, and does nothing to one that has ended
Kill(state) == IF state = "running" THEN "killed" ELSE state

ProcReturn(err) == [proc EXCEPT !.pc = "returned", !.ret = err]

\* imp.Start()
StartImport ==
    /\ proc.pc = "startImp"
    /\ \/ proc' = [proc EXCEPT !.pc = "startExp", !.imp = "running"]
       \/ proc' = ProcReturn("fast-import start failed")
    /\ UNCHANGED <<syncVars, scanVars, daemonVars, scrubVars, filterVars, callVars, fileVars, streamVars>>

\* exp.Start(), and the start of the filter goroutine
StartExport ==
    /\ proc.pc = "startExp"
    /\ \/ proc' = [proc EXCEPT !.pc = "recv", !.exp = "running", !.filt = "running"]
       \/ proc' = [ProcReturn("fast-export start failed") EXCEPT !.imp = Kill(proc.imp)]
    /\ UNCHANGED <<syncVars, scanVars, daemonVars, scrubVars, filterVars, callVars, fileVars, streamVars>>

\* the driver going on to exp.Wait() without receiving from the channel
ReceiveWithoutWaiting ==
    /\ proc.pc = "recv"
    /\ proc' = [proc EXCEPT !.pc = "expWait", !.waits = Append(@, "filter")]
    /\ UNCHANGED <<syncVars, scanVars, daemonVars, scrubVars, filterVars, callVars, fileVars, streamVars>>


\* ferr := <-filterErrCh
ReceiveFilterErr ==
    /\ proc.pc = "recv"
    /\ proc.filt = "returned"
    /\ proc' = [proc EXCEPT !.pc = "expWait", !.waits = Append(@, "filter")]
    /\ UNCHANGED <<syncVars, scanVars, daemonVars, scrubVars, filterVars, callVars, fileVars, streamVars>>

\* exp.Wait() returns once fast-export has ended, and the checks after it
WaitExport ==
    /\ proc.pc = "expWait"
    /\ proc.exp \in {"exited", "failed"}
    /\ \E p \in {[proc EXCEPT !.waits = Append(@, "export"), !.expOut = 0]} :
          proc' =
             IF proc.exp = "failed"
             THEN [p EXCEPT !.pc = "returned", !.ret = "fast-export failed",
                            !.exp = "reaped", !.imp = Kill(proc.imp)]
             ELSE IF proc.ferr # ""
             THEN [p EXCEPT !.pc = "returned", !.ret = "export filter failed",
                            !.exp = "reaped", !.imp = Kill(proc.imp)]
             ELSE [p EXCEPT !.pc = "impWait", !.exp = "reaped"]
    /\ UNCHANGED <<syncVars, scanVars, daemonVars, scrubVars, filterVars, callVars, fileVars, streamVars>>

\* imp.Wait() returns once fast-import has ended; then the repack
WaitImport ==
    /\ proc.pc = "impWait"
    /\ proc.imp \in {"exited", "failed"}
    /\ proc' = [proc EXCEPT !.pc = "returned", !.waits = Append(@, "import"),
                            !.imp = "reaped",
                            !.ret = IF proc.imp = "failed"
                                    THEN "fast-import failed" ELSE ""]
    /\ UNCHANGED <<syncVars, scanVars, daemonVars, scrubVars, filterVars, callVars, fileVars, streamVars>>

\* syncTarget after the call: the temporary repository is removed on an error
AfterExportFilterImport ==
    /\ proc.pc = "returned"
    /\ proc' = [proc EXCEPT !.pc = "done",
                            !.tmpBare = IF proc.ret # "" THEN "removed" ELSE @]
    /\ UNCHANGED <<syncVars, scanVars, daemonVars, scrubVars, filterVars, callVars, fileVars, streamVars>>

Driver ==
    \/ StartImport
    \/ StartExport
    \/ ReceiveFilterErr
    \/ WaitExport
    \/ WaitImport
    \/ AfterExportFilterImport

\* git fast-export writes a record: the write blocks while the pipe is full
ExportWrite ==
    /\ proc.exp = "running"
    /\ proc.left > 0
    /\ proc.expOut < PipeCap
    /\ proc' = [proc EXCEPT !.left = @ - 1, !.expOut = @ + 1]
    /\ UNCHANGED <<syncVars, scanVars, daemonVars, scrubVars, filterVars, callVars, fileVars, streamVars>>

\* git fast-export ends after its last record
ExportExit ==
    /\ proc.exp = "running"
    /\ proc.left = 0
    /\ proc' = [proc EXCEPT !.exp = "exited"]
    /\ UNCHANGED <<syncVars, scanVars, daemonVars, scrubVars, filterVars, callVars, fileVars, streamVars>>

\* git fast-export fails before its last record
ExportFail ==
    /\ proc.exp = "running"
    /\ proc.left > 0
    /\ proc' = [proc EXCEPT !.exp = "failed"]
    /\ UNCHANGED <<syncVars, scanVars, daemonVars, scrubVars, filterVars, callVars, fileVars, streamVars>>

Exporter == ExportWrite \/ ExportExit

\* what the goroutine does when Filter returns err: it sends err on the
\* buffered channel and closes impStdin
FilterReturn(err) ==
    [proc EXCEPT !.filt = "returned", !.ferr = err, !.hold = FALSE,
                 !.impStdin = "closed"]

\* Filter reads the next record of the stream
FilterRead ==
    /\ proc.filt = "running"
    /\ ~proc.hold
    /\ proc.expOut > 0
    /\ proc' = [proc EXCEPT !.expOut = @ - 1, !.hold = TRUE]
    /\ UNCHANGED <<syncVars, scanVars, daemonVars, scrubVars, filterVars, callVars, fileVars, streamVars>>

\* Filter writes the record it holds to impStdin: the write blocks while the
\* pipe is full, and fails once fast-import has ended
FilterWrite ==
    /\ proc.filt = "running"
    /\ proc.hold
    /\ \/ /\ proc.imp = "running"
          /\ proc.impIn < PipeCap
          /\ proc' = [proc EXCEPT !.impIn = @ + 1, !.hold = FALSE]
       \/ /\ proc.imp # "running"
          /\ proc' = FilterReturn("write failed")
    /\ UNCHANGED <<syncVars, scanVars, daemonVars, scrubVars, filterVars, callVars, fileVars, streamVars>>

\* Filter refuses the record it holds (an unsafe rename, a ref collision)
FilterRefuse ==
    /\ proc.filt = "running"
    /\ proc.hold
    /\ proc' = FilterReturn("refused")
    /\ UNCHANGED <<syncVars, scanVars, daemonVars, scrubVars, filterVars, callVars, fileVars, streamVars>>

\* Filter reads the end of the stream: the pipe is empty and fast-export,
\* which held its write end, has ended
FilterEOF ==
    /\ proc.filt = "running"
    /\ ~proc.hold
    /\ proc.expOut = 0
    /\ proc.exp \in {"exited", "failed"}
    /\ proc' = FilterReturn("")
    /\ UNCHANGED <<syncVars, scanVars, daemonVars, scrubVars, filterVars, callVars, fileVars, streamVars>>

FilterGoroutine ==
    \/ FilterRead
    \/ FilterWrite
    \/ FilterEOF

\* git fast-import reads a record, and may fail on it
ImportRead ==
    /\ proc.imp = "running"
    /\ proc.impIn > 0
    /\ \/ proc' = [proc EXCEPT !.impIn = @ - 1, !.tmpBare = "written"]
       \/ proc' = [proc EXCEPT !.impIn = 0, !.imp = "failed"]
    /\ UNCHANGED <<syncVars, scanVars, daemonVars, scrubVars, filterVars, callVars, fileVars, streamVars>>

\* git fast-import reads the end of its stdin and ends
ImportExit ==
    /\ proc.imp = "running"
    /\ proc.impIn = 0
    /\ proc.impStdin = "closed"
    /\ proc' = [proc EXCEPT !.imp = "exited"]
    /\ UNCHANGED <<syncVars, scanVars, daemonVars, scrubVars, filterVars, callVars, fileVars, streamVars>>

Importer == ImportRead \/ ImportExit

\* the call starts with an empty temporary repository and a source whose
\* export stream has some number of records
InitProc ==
    /\ InitSync /\ ScanOff /\ DaemonOff /\ pipe = PipeOff /\ FilterOff /\ FileOff /\ InputOff /\ call = NoCall
    /\ \E n \in 0..MaxChunks : proc = [NoProc EXCEPT !.pc = "startImp", !.left = n]

NextProc ==
    \/ Driver
    \/ Exporter
    \/ FilterGoroutine
    \/ FilterRefuse
    \/ ExportFail
    \/ Importer

\* the operating system and the Go scheduler let every process and goroutine
\* that can take a step take one; nothing obliges a record to be refused
\* or git fast-export to fail
SpecProc ==
    /\ InitProc
    /\ [][NextProc]_vars
    /\ WF_vars(Driver)
    /\ WF_vars(Exporter)
    /\ WF_vars(FilterGoroutine)
    /\ WF_vars(Importer)


\* ---------------------------------------------------------------------------
\* Filter over a stream of lines: blobs, commits, and the tag and reset
\* records git fast-export writes after them
\* ---------------------------------------------------------------------------

\* bounds of the streams: the commits of the branch, and the tag and reset
\* records after them
MaxStreamCommits == 1

MaxRefRecords == 2

S_public == <<"p", "u", "b", "l", "i", "c">>

S_refPublic == <<"r", "e", "f", "s", "/", "h", "e", "a", "d", "s", "/", "p", "u", "b", "l", "i", "c">>

\* the rules of these streams: the replacement is longer than the username
StreamRules ==
    Compile([PrivateUsername |-> S_priv,
             Replacement |-> S_public,
             ExtraReplacements |-> <<>>,
             ExcludePatterns |-> <<>>,
             OptInPaths |-> <<>>,
             PublicAuthorName |-> <<>>,
             PublicAuthorEmail |-> <<>>])

StreamRefs == {S_refBob, S_refPublic}

StreamTagNames == {S_priv, S_public}

DataLines(b) == <<Line("data", Itoa(Len(b))), Line("payload", b)>>

BlobLines(mark, b) ==
    <<Line("blob", <<>>), Line("mark", mark)>> \o DataLines(b) \o <<BlankLine>>

CommitLines(ref, mark, parent, ops) ==
    <<Line("commit", ref), Line("mark", mark), Line("author", S_author),
      Line("committer", S_author)>>
        \o DataLines(S_message)
        \o (IF parent # <<>> THEN <<Line("from", parent)>> ELSE <<>>)
        \o [i \in 1..Len(ops) |-> Line("op", ops[i])]
        \o <<BlankLine>>

\* a tag as git fast-export writes it: the message is followed by one newline
TagLines(name, from) ==
    <<Line("tag", name), Line("from", from), Line("tagger", S_author)>>
        \o DataLines(name \o <<"\n">>) \o <<BlankLine>>

\* a reset of a ref to a commit exported before, as git fast-export writes it
ResetFromLines(ref, from) == <<Line("reset", ref), Line("from", from), BlankLine>>

ResetLines(ref) == <<Line("reset", ref)>>

StreamMark(i) == <<":">> \o Itoa(i + 1)

\* the commits of one branch, each the parent of the next, after the blob they
\* name
RECURSIVE CommitChain(_, _, _)
CommitChain(ref, opsList, i) ==
    IF i > Len(opsList) THEN <<>>
    ELSE CommitLines(ref, StreamMark(i), IF i = 1 THEN <<>> ELSE StreamMark(i - 1),
                     opsList[i])
            \o CommitChain(ref, opsList, i + 1)

StreamOps == {<<>>, <<Op_Mbob>>}

\* git fast-export writes a reset of the ref before the first commit of a branch
CommitPartsOf(ref) ==
    {[lines |-> BlobLines(<<":", "1">>, S_message) \o lead \o CommitChain(ref, ol, 1),
      last |-> StreamMark(Len(ol))] :
        lead \in {<<>>, ResetLines(ref)},
        ol \in UNION {[1..k -> StreamOps] : k \in 1..MaxStreamCommits}}

CommitParts == UNION {CommitPartsOf(ref) : ref \in StreamRefs}

RefRecords(from) ==
    {TagLines(n, from) : n \in StreamTagNames}
        \cup {ResetFromLines(r, from) : r \in StreamRefs}
        \cup {ResetLines(r) : r \in StreamRefs}

RECURSIVE Flatten(_)
Flatten(ss) == IF ss = <<>> THEN <<>> ELSE ss[1] \o Flatten(Tail(ss))

StreamsOf(p) ==
    {p.lines \o Flatten(rs) :
        rs \in UNION {[1..k -> RefRecords(p.last)] : k \in 0..MaxRefRecords}}

Streams == UNION {StreamsOf(p) : p \in CommitParts}

InitStream ==
    /\ InitSync /\ ScanOff /\ DaemonOff /\ pipe = PipeOff /\ FileOff /\ ProcOff /\ call = NoCall
    /\ ef = NewExportFilter(StreamRules)
    /\ rec = NoRecord
    /\ out = <<>>
    /\ ferr = ""
    /\ ferrArgs = <<>>
    /\ refsRead = <<>>
    /\ commits = EmptyMap
    /\ keepOps = FALSE
    /\ \E s \in Streams : input = [lines |-> s, pos |-> 1]

\* Filter lines 61-64: the loop meets a blob record
LoopBlob ==
    /\ ferr = ""
    /\ input.pos <= Len(input.lines)
    /\ input.lines[input.pos].k = "blob"
    /\ \E h \in {FilterLine(ef, input.lines, input.pos)} :
          /\ ef' = h.flt
          /\ out' = h.out
          /\ ferr' = h.err
          /\ ferrArgs' = h.args
          /\ input' = [input EXCEPT !.pos = h.next]
    /\ rec' = [NoRecord EXCEPT !.kind = input.lines[input.pos].k,
                               !.ref = input.lines[input.pos].v, !.at = input.pos]
    /\ UNCHANGED <<refsRead, commits, keepOps, syncVars, scanVars, daemonVars, scrubVars, callVars, fileVars, procVars>>

\* Filter lines 65-75: the loop meets a commit record
LoopCommit ==
    /\ ferr = ""
    /\ input.pos <= Len(input.lines)
    /\ input.lines[input.pos].k = "commit"
    /\ \E h \in {FilterLine(ef, input.lines, input.pos)} :
          /\ ef' = h.flt
          /\ out' = h.out
          /\ ferr' = h.err
          /\ ferrArgs' = h.args
          /\ input' = [input EXCEPT !.pos = h.next]
    /\ rec' = [NoRecord EXCEPT !.kind = input.lines[input.pos].k,
                               !.ref = input.lines[input.pos].v, !.at = input.pos]
    /\ UNCHANGED <<refsRead, commits, keepOps, syncVars, scanVars, daemonVars, scrubVars, callVars, fileVars, procVars>>

\* Filter lines 76-79: the loop meets a tag record
LoopTag ==
    /\ ferr = ""
    /\ input.pos <= Len(input.lines)
    /\ input.lines[input.pos].k = "tag"
    /\ \E h \in {FilterLine(ef, input.lines, input.pos)} :
          /\ ef' = h.flt
          /\ out' = h.out
          /\ ferr' = h.err
          /\ ferrArgs' = h.args
          /\ input' = [input EXCEPT !.pos = h.next]
    /\ rec' = [NoRecord EXCEPT !.kind = input.lines[input.pos].k,
                               !.ref = input.lines[input.pos].v, !.at = input.pos]
    /\ UNCHANGED <<refsRead, commits, keepOps, syncVars, scanVars, daemonVars, scrubVars, callVars, fileVars, procVars>>

\* Filter lines 80-83: the loop meets a reset line
LoopReset ==
    /\ ferr = ""
    /\ input.pos <= Len(input.lines)
    /\ input.lines[input.pos].k = "reset"
    /\ \E h \in {FilterLine(ef, input.lines, input.pos)} :
          /\ ef' = h.flt
          /\ out' = h.out
          /\ ferr' = h.err
          /\ ferrArgs' = h.args
          /\ input' = [input EXCEPT !.pos = h.next]
    /\ rec' = [NoRecord EXCEPT !.kind = input.lines[input.pos].k,
                               !.ref = input.lines[input.pos].v, !.at = input.pos]
    /\ UNCHANGED <<refsRead, commits, keepOps, syncVars, scanVars, daemonVars, scrubVars, callVars, fileVars, procVars>>

\* Filter lines 84-86: the loop meets any other line and passes it through
LoopOther ==
    /\ ferr = ""
    /\ input.pos <= Len(input.lines)
    /\ input.lines[input.pos].k \notin {"blob", "commit", "tag", "reset"}
    /\ \E h \in {FilterLine(ef, input.lines, input.pos)} :
          /\ ef' = h.flt
          /\ out' = h.out
          /\ ferr' = h.err
          /\ ferrArgs' = h.args
          /\ input' = [input EXCEPT !.pos = h.next]
    /\ rec' = [NoRecord EXCEPT !.kind = input.lines[input.pos].k,
                               !.ref = input.lines[input.pos].v, !.at = input.pos]
    /\ UNCHANGED <<refsRead, commits, keepOps, syncVars, scanVars, daemonVars, scrubVars, callVars, fileVars, procVars>>

\* the stream has ended and Filter returns nil
LoopEOF ==
    /\ ferr = ""
    /\ input.pos > Len(input.lines)
    /\ rec.kind # "eof"
    /\ rec' = [NoRecord EXCEPT !.kind = "eof", !.at = input.pos]
    /\ out' = <<>>
    /\ UNCHANGED <<ef, ferr, ferrArgs, refsRead, commits, keepOps, streamVars, syncVars, scanVars, daemonVars, scrubVars, callVars, fileVars, procVars>>

NextStream ==
    \/ LoopBlob
    \/ LoopCommit
    \/ LoopTag
    \/ LoopReset
    \/ LoopOther
    \/ LoopEOF

SpecStream == InitStream /\ [][NextStream]_vars


\* ---------------------------------------------------------------------------
\* calls of filterOps on the file-operation lines of one commit
\* ---------------------------------------------------------------------------

\* bound: the file-operation lines of the commit
MaxOps == 2

\* file-operation lines that hold the private username: in a plain path, in a
\* path git fast-export quotes for its space, in an M line without mode and
\* dataref, in a line of another command
L_Mbob == <<"M", " ", "1", "0", "0", "6", "4", "4", " ", ":", "1", " ", "b", "o", "b", ".", "t", "x", "t", "\n">>

L_MbobQuoted == <<"M", " ", "1", "0", "0", "6", "4", "4", " ", ":", "1", " ", "\"", "b", "o", "b", " ", "x", "\"", "\n">>

L_MbobShort == <<"M", " ", "b", "o", "b", "\n">>

L_Dbob == <<"D", " ", "b", "o", "b", ".", "t", "x", "t", "\n">>

L_Rbob == <<"R", " ", "b", "o", "b", ".", "t", "x", "t", " ", "b", ".", "t", "x", "t", "\n">>

L_RbobQuoted == <<"R", " ", "\"", "b", "o", "b", " ", "a", "\"", " ", "b", ".", "t", "x", "t", "\n">>

L_CbobQuoted == <<"C", " ", "a", ".", "t", "x", "t", " ", "\"", "b", "o", "b", " ", "b", "\"", "\n">>

L_Nbob == <<"N", " ", ":", "1", " ", "b", "o", "b", "\n">>

L_Ma == <<"M", " ", "1", "0", "0", "6", "4", "4", " ", ":", "1", " ", "a", ".", "t", "x", "t", "\n">>

\* file-operation lines on paths under a non-negotiable directory, plain and
\* quoted for a space
L_Mclaude == <<"M", " ", "1", "0", "0", "6", "4", "4", " ", ":", "1", " ", ".", "c", "l", "a", "u", "d", "e", "/", "k", "\n">>

L_MclaudeQuoted == <<"M", " ", "1", "0", "0", "6", "4", "4", " ", ":", "1", " ", "\"", ".", "c", "l", "a", "u", "d", "e", "/", "a", " ", "b", "\"", "\n">>

L_Dclaude == <<"D", " ", ".", "c", "l", "a", "u", "d", "e", "/", "k", "\n">>

L_CclaudeQuoted == <<"C", " ", "\"", ".", "c", "l", "a", "u", "d", "e", "/", "a", " ", "b", "\"", " ", ".", "c", "l", "a", "u", "d", "e", "/", "c", "\n">>

OpLineSet ==
    {L_Mbob, L_MbobQuoted, L_MbobShort, L_Dbob, L_Rbob,
     L_RbobQuoted, L_CbobQuoted, L_Nbob, L_Ma,
     L_Mclaude, L_MclaudeQuoted, L_Dclaude, L_CclaudeQuoted,
     S_deleteall \o S_nl}

FilterOpsCalls ==
    {[fn |-> "filterOps", arg |-> ls, done |-> FALSE, out |-> <<>>] :
        ls \in UNION {[1..k -> OpLineSet] : k \in 1..MaxOps}}

\* filterOps(ops) on a new filter
CallFilterOps ==
    /\ call.fn = "filterOps"
    /\ ~call.done
    /\ call' = [call EXCEPT !.done = TRUE,
                            !.out = filterOps(NewExportFilter(FilterRules), call.arg)]
    /\ UNCHANGED <<syncVars, scanVars, daemonVars, scrubVars, filterVars, fileVars, procVars, streamVars>>

\* identity lines as git writes them, with an empty email, with a ">" in the
\* name, and without an email part
IdentityParts == {<<"B", "o", "b", " ", "<", "b", "o", "b", "@", "x", ".", "y", ">">>, <<"B", "o", "b", " ", "<", ">">>, <<"B", ">", "b", " ", "<", "b", "o", "b", "@", "x", ".", "y", ">">>, <<"A", "l", "i", "c", "e">>}

IdentityStamps == {<<"1", " ", "+", "0", "0", "0", "0">>, <<"2", " ", "-", "0", "1", "3", "0">>}

IdentityCalls ==
    {[fn |-> "rewriteIdentityLine",
      arg |-> [kind |-> kd, ident |-> id, stamp |-> ts],
      done |-> FALSE, out |-> <<>>] :
        kd \in {"author", "committer", "tagger"}, id \in IdentityParts, ts \in IdentityStamps}

\* rewriteIdentityLine(kind, line, rules) on the line "<kind> <ident> <stamp>"
CallRewriteIdentityLine ==
    /\ call.fn = "rewriteIdentityLine"
    /\ ~call.done
    /\ call' = [call EXCEPT !.done = TRUE,
                            !.out = rewriteIdentityLine(call.arg.kind,
                                        call.arg.ident \o S_sp \o call.arg.stamp \o S_nl,
                                        FilterRules)]
    /\ UNCHANGED <<syncVars, scanVars, daemonVars, scrubVars, filterVars, fileVars, procVars, streamVars>>


InitOps ==
    /\ InitSync /\ ScanOff /\ DaemonOff /\ pipe = PipeOff /\ FilterOff /\ FileOff /\ ProcOff /\ InputOff
    /\ call \in FilterOpsCalls \cup IdentityCalls

NextOps ==
    \/ CallFilterOps
    \/ CallRewriteIdentityLine

SpecOps == InitOps /\ [][NextOps]_vars


\* ---------------------------------------------------------------------------
\* The daemon: Server.Run polls, reloads its configuration and syncs every
\* discovered repository in a goroutine that holds a slot of the semaphore.
\* ---------------------------------------------------------------------------

\* bound: the largest max_concurrent a configuration file holds
MaxConfigured == 3

\* bound: the repositories one discovery finds
MaxRepos == 4

\* bound: the ticks of the poll ticker
MaxTicks == 2

\* the value Run and LoadDaemonConfig give an unset or non-positive max_concurrent
DefaultMaxConcurrent == 2

\* the max_concurrent values a configuration holds (0: unset)
MaxConcurrentValues == (0 - 1) .. MaxConfigured

\* LoadDaemonConfig: the loaded configuration's MaxConcurrent
LoadDaemonConfig(fileValue) ==
    IF fileValue <= 0 THEN DefaultMaxConcurrent ELSE fileValue

\* the goroutines between `sem <- struct{}{}` and their deferred `<-sem`
InFlight == daemon.loading + daemon.syncing

\* Run up to the loop: the defaults, and the semaphore made once
RunStart ==
    /\ daemon.pc = "start"
    /\ LET m == IF daemon.cfgMax <= 0 THEN DefaultMaxConcurrent ELSE daemon.cfgMax
       IN  daemon' = [daemon EXCEPT !.cfgMax = m, !.cap = m, !.pc = "select"]
    /\ UNCHANGED <<syncVars, scanVars, scrubVars, filterVars, callVars, fileVars, procVars, streamVars>>

\* case <-ctx.Done()
RunShutdown ==
    /\ daemon.pc = "select"
    /\ daemon' = [daemon EXCEPT !.pc = "stopped"]
    /\ UNCHANGED <<syncVars, scanVars, scrubVars, filterVars, callVars, fileVars, procVars, streamVars>>

\* case <-ticker.C: the configuration is reloaded (kept when the load fails),
\* the repositories are discovered (a failure continues the loop)
RunTick(loaded, fileValue, discovered, n) ==
    /\ daemon.pc = "select"
    /\ daemon.ticks < MaxTicks
    /\ daemon' = [daemon EXCEPT
                    !.ticks = @ + 1,
                    !.cfgMax = IF loaded THEN LoadDaemonConfig(fileValue) ELSE @,
                    !.todo = IF discovered THEN n ELSE 0,
                    !.pc = IF discovered THEN "range" ELSE "select"]
    /\ UNCHANGED <<syncVars, scanVars, scrubVars, filterVars, callVars, fileVars, procVars, streamVars>>

\* the body of `for _, rp := range repos`: wg.Add(1), a send on sem that blocks
\* while the channel is full, and the goroutine started
RunSpawn ==
    /\ daemon.pc = "range"
    /\ daemon.todo > 0
    /\ daemon.sem < daemon.cap
    /\ daemon' = [daemon EXCEPT !.wg = @ + 1, !.sem = @ + 1, !.loading = @ + 1,
                                !.todo = @ - 1]
    /\ UNCHANGED <<syncVars, scanVars, scrubVars, filterVars, callVars, fileVars, procVars, streamVars>>

\* the range is over: wg.Wait() is reached
RunRangeDone ==
    /\ daemon.pc = "range"
    /\ daemon.todo = 0
    /\ daemon' = [daemon EXCEPT !.pc = "wait"]
    /\ UNCHANGED <<syncVars, scanVars, scrubVars, filterVars, callVars, fileVars, procVars, streamVars>>

\* a goroutine whose LoadRepoConfigFromAnyBranch fails: it logs the error and
\* returns, the deferred calls free its slot
GoConfigError ==
    /\ daemon.loading > 0
    /\ daemon' = [daemon EXCEPT !.loading = @ - 1, !.sem = @ - 1, !.wg = @ - 1,
                                !.errors = @ + 1]
    /\ UNCHANGED <<syncVars, scanVars, scrubVars, filterVars, callVars, fileVars, procVars, streamVars>>

\* a goroutine whose configuration loaded: it calls SyncRepo
GoSyncRepo ==
    /\ daemon.loading > 0
    /\ daemon' = [daemon EXCEPT !.loading = @ - 1, !.syncing = @ + 1]
    /\ UNCHANGED <<syncVars, scanVars, scrubVars, filterVars, callVars, fileVars, procVars, streamVars>>

\* SyncRepo returned (with results or an error): the deferred calls free the slot
GoReturn ==
    /\ daemon.syncing > 0
    /\ daemon' = [daemon EXCEPT !.syncing = @ - 1, !.sem = @ - 1, !.wg = @ - 1,
                                !.returned = @ + 1]
    /\ UNCHANGED <<syncVars, scanVars, scrubVars, filterVars, callVars, fileVars, procVars, streamVars>>

\* wg.Wait() returns
RunWaitDone ==
    /\ daemon.pc = "wait"
    /\ daemon.wg = 0
    /\ daemon' = [daemon EXCEPT !.pc = "select"]
    /\ UNCHANGED <<syncVars, scanVars, scrubVars, filterVars, callVars, fileVars, procVars, streamVars>>

InitDaemon ==
    /\ InitSync /\ ScanOff /\ pipe = PipeOff /\ FilterOff /\ FileOff /\ ProcOff /\ InputOff
    /\ call = NoCall
    /\ \E m \in MaxConcurrentValues :
          daemon = [NoDaemon EXCEPT !.pc = "start", !.startMax = m, !.cfgMax = m]

NextDaemon ==
    \/ RunStart
    \/ RunShutdown
    \/ \E loaded \in BOOLEAN, fileValue \in MaxConcurrentValues,
          discovered \in BOOLEAN, n \in 0 .. MaxRepos :
              RunTick(loaded, fileValue, discovered, n)
    \/ RunSpawn
    \/ RunRangeDone
    \/ GoConfigError
    \/ GoSyncRepo
    \/ GoReturn
    \/ RunWaitDone

SpecDaemon == InitDaemon /\ [][NextDaemon]_vars


\* ---------------------------------------------------------------------------
\* The audit's blob scan: scanReachableBlobsForStrings starts `git cat-file
\* --batch`, feeds it the blob names from a goroutine and reads its output.
\* ---------------------------------------------------------------------------

\* bound: the blobs listReachableBlobs returns
MaxScanBlobs == 4

\* bound: the largest MaxHits of the options
MaxScanHits == 2

\* bound: how many blob names the pipe to cat-file's stdin holds before a write blocks
ScanStdinCap == 1

\* bound: how many blobs' output the pipe from cat-file's stdout holds before a write blocks
ScanStdoutCap == 1

\* the goroutine writes the next blob name: the write blocks while the pipe is
\* full and cat-file runs, and fails (the error is dropped) once cat-file has ended
FeederWrite ==
    /\ scan.feeder = "running"
    /\ scan.fed < Len(scan.blobs)
    /\ \/ /\ scan.cat = "running"
          /\ scan.stdin < ScanStdinCap
          /\ scan' = [scan EXCEPT !.fed = @ + 1, !.stdin = @ + 1]
       \/ /\ scan.cat # "running"
          /\ scan' = [scan EXCEPT !.fed = @ + 1]
    /\ UNCHANGED <<syncVars, daemonVars, scrubVars, filterVars, callVars, fileVars, procVars, streamVars>>

\* the goroutine ends: defer stdin.Close()
FeederClose ==
    /\ scan.feeder = "running"
    /\ scan.fed = Len(scan.blobs)
    /\ scan' = [scan EXCEPT !.feeder = "done", !.stdinOpen = FALSE]
    /\ UNCHANGED <<syncVars, daemonVars, scrubVars, filterVars, callVars, fileVars, procVars, streamVars>>

\* cat-file reads a blob name from its stdin
CatRead ==
    /\ scan.cat = "running"
    /\ ~scan.held
    /\ scan.stdin > 0
    /\ scan' = [scan EXCEPT !.stdin = @ - 1, !.held = TRUE]
    /\ UNCHANGED <<syncVars, daemonVars, scrubVars, filterVars, callVars, fileVars, procVars, streamVars>>

\* cat-file writes the header and the content of the blob to its stdout: the
\* write blocks while the pipe is full
CatWrite ==
    /\ scan.cat = "running"
    /\ scan.held
    /\ scan.stdout < ScanStdoutCap
    /\ scan' = [scan EXCEPT !.stdout = @ + 1, !.held = FALSE]
    /\ UNCHANGED <<syncVars, daemonVars, scrubVars, filterVars, callVars, fileVars, procVars, streamVars>>

\* cat-file reads the end of its stdin and exits
CatExit ==
    /\ scan.cat = "running"
    /\ ~scan.held
    /\ scan.stdin = 0
    /\ ~scan.stdinOpen
    /\ scan' = [scan EXCEPT !.cat = "exited"]
    /\ UNCHANGED <<syncVars, daemonVars, scrubVars, filterVars, callVars, fileVars, procVars, streamVars>>

\* cat-file dies of itself
CatFail ==
    /\ scan.cat = "running"
    /\ scan' = [scan EXCEPT !.cat = "failed", !.held = FALSE]
    /\ UNCHANGED <<syncVars, daemonVars, scrubVars, filterVars, callVars, fileVars, procVars, streamVars>>

\* one round of `for range blobShas`: the header and the payload of the next
\* blob are read and searched, and the loop is left at the hit cap
ScanRead ==
    /\ scan.pc = "loop"
    /\ scan.read < Len(scan.blobs)
    /\ scan.stdout > 0
    /\ LET hits == scan.hitCount + (IF scan.blobs[scan.read + 1] THEN 1 ELSE 0)
       IN  scan' = [scan EXCEPT !.stdout = @ - 1, !.read = @ + 1, !.hitCount = hits,
                                !.pc = IF hits >= scan.maxHits THEN "wait" ELSE "loop"]
    /\ UNCHANGED <<syncVars, daemonVars, scrubVars, filterVars, callVars, fileVars, procVars, streamVars>>

\* the read of a header fails at the end of cat-file's output: Kill and return
ScanReadError ==
    /\ scan.pc = "loop"
    /\ scan.read < Len(scan.blobs)
    /\ scan.stdout = 0
    /\ scan.cat # "running"
    /\ scan' = [scan EXCEPT !.pc = "returned", !.ret = "error"]
    /\ UNCHANGED <<syncVars, daemonVars, scrubVars, filterVars, callVars, fileVars, procVars, streamVars>>

\* every blob name has had its round
ScanRangeDone ==
    /\ scan.pc = "loop"
    /\ scan.read = Len(scan.blobs)
    /\ scan' = [scan EXCEPT !.pc = "wait"]
    /\ UNCHANGED <<syncVars, daemonVars, scrubVars, filterVars, callVars, fileVars, procVars, streamVars>>

\* _ = cmd.Wait() returns once cat-file has ended
ScanWait ==
    /\ scan.pc = "wait"
    /\ scan.cat # "running"
    /\ scan' = [scan EXCEPT !.pc = "returned", !.ret = "findings"]
    /\ UNCHANGED <<syncVars, daemonVars, scrubVars, filterVars, callVars, fileVars, procVars, streamVars>>

Feeder == FeederWrite \/ FeederClose

CatFile == CatRead \/ CatWrite \/ CatExit

Scanner == ScanRead \/ ScanReadError \/ ScanRangeDone \/ ScanWait

\* the blobs (TRUE: the blob holds a forbidden string) in the order they are fed
ScanBlobLists == UNION {[1 .. n -> BOOLEAN] : n \in 0 .. MaxScanBlobs}

InitScan ==
    /\ InitSync /\ DaemonOff /\ pipe = PipeOff /\ FilterOff /\ FileOff /\ ProcOff /\ InputOff
    /\ call = NoCall
    /\ \E blobs \in ScanBlobLists, maxHits \in 1 .. MaxScanHits :
          scan = [NoScan EXCEPT !.pc = "loop", !.blobs = blobs, !.maxHits = maxHits,
                                !.feeder = "running", !.stdinOpen = TRUE,
                                !.cat = "running"]

NextScan ==
    \/ FeederWrite
    \/ FeederClose
    \/ CatRead
    \/ CatWrite
    \/ CatExit
    \/ CatFail
    \/ ScanRead
    \/ ScanReadError
    \/ ScanRangeDone
    \/ ScanWait

SpecScan ==
    /\ InitScan
    /\ [][NextScan]_vars
    /\ WF_vars(Feeder)
    /\ WF_vars(CatFile)
    /\ WF_vars(Scanner)


Next ==
    \/ \E list \in CollapseLists, r1 \in Replacements, head \in SourceOids,
          only \in {""} \cup LabelSet, validate \in BOOLEAN :
              StartSync(RepoConfig(list, r1), head, only, validate)
    \/ Cancel
    \/ TargetNotSelected
    \/ TargetUpToDate
    \/ TargetBegin
    \/ Scrub
    \/ Validate
    \/ ReplaceCache
    \/ Push
    \/ Return

Spec == Init /\ [][Next]_vars

\* ------------------------------------------------------------------------
\* properties of the sync driver
\* ------------------------------------------------------------------------

ValidatedBuilds == {<<"validated", k>> : k \in 1..syncs}

\* a step of the loop of SyncRepo that decides what to do with a selected target
DecidesTarget == InLoop /\ Selected(CurTarget) /\ run'.cancelled = run.cancelled

\* the step appends a result to the results of the running call
AppendsResult == Len(run'.results) = Len(run.results) + 1

NewResult == run'.results[Len(run'.results)]

\* C2: the cache directory <label>.git and the remote only ever receive a repository
\* that ValidateScrubbedRepo accepted, and within one syncTarget call the cache
\* replacement and the push come after the validation of that call's temporary
\* repository, whatever Options.Validate the caller passed.
C2_ValidatedBeforePublish ==
    /\ \A l \in LabelSet : cache[l].final \in {NoRepo} \cup ValidatedBuilds
    /\ \A l \in LabelSet : remote[l] \in {NoRepo} \cup ValidatedBuilds
    /\ \A i \in 1..Len(log) :
          log[i][2] \in {"replace", "push"}
             => \E j \in 1..(i - 1) : log[j] = <<log[i][1], "validated">>

\* C2 witness: a mirror push has published the repository validated in this call
C2_Witness ==
    /\ Len(log) > 0
    /\ log[Len(log)][2] = "push"
    /\ remote[log[Len(log)][1]] = <<"validated", syncs>>

\* C3: a selected target whose stored fingerprints equal the current ones and whose
\* last_error is empty is reported up to date and nothing else changes; any other
\* selected target has syncTarget run for it.
C3_SkipIffUpToDate ==
    [][DecidesTarget =>
         LET l == CurTarget.Label
             fresh == /\ st[l].LastPrivateRefs = run.refsHash
                      /\ st[l].LastConfigHash = targetConfigHash(run.cfg, CurTarget)
                      /\ st[l].LastError = ""
         IN IF fresh
            THEN /\ AppendsResult
                 /\ NewResult = [TargetLabel |-> l, DidWork |-> FALSE, Error |-> ""]
                 /\ UNCHANGED <<st, cache, remote, log>>
            ELSE /\ log' = <<<<l, "begin">>>>
                 /\ run'.pc = "scrub" \/ (AppendsResult /\ NewResult.DidWork)]_vars

\* C3 witness: the running call has reported a target up to date
C3_Witness ==
    \E i \in 1..Len(run.results) : ~run.results[i].DidWork

\* C4: when syncTarget returns, success clears last_error and stores the time and
\* both fingerprints of this call; failure stores the message and keeps the rest.
C4_StateAfterAttempt ==
    [][(AppendsResult /\ NewResult.DidWork) =>
         LET l == NewResult.TargetLabel
         IN IF NewResult.Error = ""
            THEN st'[l] = [LastError |-> "",
                           LastSyncAt |-> syncs,
                           LastPrivateRefs |-> run.refsHash,
                           LastConfigHash |-> targetConfigHash(run.cfg, CurTarget)]
            ELSE /\ st'[l] = [st[l] EXCEPT !.LastError = NewResult.Error]
                 /\ st'[l].LastError # ""]_vars

\* C4 witness: a target that was synced once has failed since and keeps the
\* fingerprints of the earlier success
C4_Witness ==
    \E l \in LabelSet :
        /\ st[l].LastError # ""
        /\ st[l].LastPrivateRefs # NoHash
        /\ st[l].LastSyncAt < syncs

\* the situation of C5: the target's last attempt succeeded, the refs are as they
\* were then, and the lists that apply to it are given by now
SyncedBefore(l) ==
    /\ synced[l] # <<>>
    /\ st[l].LastError = ""
    /\ st[l].LastPrivateRefs = run.refsHash

MergedSorted(lists) == SortStrings(lists[1] \o lists[2])

\* C5 as stated: any change of the collapse list forces a rebuild
C5_AnyListChangeRebuilds ==
    [][(DecidesTarget /\ SyncedBefore(CurTarget.Label)
          /\ CollapseListsOf(run.cfg, CurTarget) # synced[CurTarget.Label])
        => log' = <<<<CurTarget.Label, "begin">>>>]_vars

\* C5 amended: a collapse list that differs from the synced one in its entries, and
\* not only in their order, forces a rebuild
C5_ChangedEntriesRebuild ==
    [][(DecidesTarget /\ SyncedBefore(CurTarget.Label)
          /\ MergedSorted(CollapseListsOf(run.cfg, CurTarget))
               # MergedSorted(synced[CurTarget.Label]))
        => /\ log' = <<<<CurTarget.Label, "begin">>>>
           /\ run'.pc = "scrub" \/ (AppendsResult /\ NewResult.DidWork)]_vars

\* C5 witness: a target synced with one collapse list is being rebuilt, its refs
\* unchanged, under a list with other entries
C5_Witness ==
    /\ run.pc = "scrub"
    /\ SyncedBefore(CurTarget.Label)
    /\ st[CurTarget.Label].LastConfigHash # NoHash
    /\ MergedSorted(CollapseListsOf(run.cfg, CurTarget))
         # MergedSorted(synced[CurTarget.Label])

SelectedLabels(only) ==
    LET Sel(l) == only = "" \/ l = only
    IN SelectSeq(Labels, Sel)

\* C6: SyncRepo returns one result per selected target, in order, whatever failed,
\* and a failure is recorded in the state of the target that failed and no other.
C6_EveryTargetAttempted ==
    run.pc = "done" =>
        /\ [i \in 1..Len(run.results) |-> run.results[i].TargetLabel]
             = SelectedLabels(run.onlyTarget)
        /\ \A i \in 1..Len(run.results) :
              st[run.results[i].TargetLabel].LastError = run.results[i].Error

\* C6 witness: the first target failed and the second was synced in the same call
C6_Witness ==
    /\ run.pc = "done"
    /\ Len(run.results) = 2
    /\ run.results[1].Error # ""
    /\ run.results[2].DidWork
    /\ run.results[2].Error = ""

\* C7 as stated: once the context is cancelled no further target is started and the
\* export and import children do not run to completion
C7_CancelStopsWork ==
    [][run.cancelled =>
         /\ ~(run.pc = "loop" /\ run'.pc = "scrub")
         /\ ~(run.pc = "scrub" /\ run'.pc \in {"validate", "replace"})]_vars

\* ------------------------------------------------------------------------
\* properties of the content pipeline
\* ------------------------------------------------------------------------

\* C1 as stated: nothing the driver publishes holds the private username, in a blob
\* or in a ref name, whatever the case of its letters
C1_NoUsernameInPublished ==
    pipe.pc = "done" =>
        LET u == ToLower(TrimSpace(pipe.PrivateUsername))
        IN /\ ~Contains(ToLower(pipe.published.blob), u)
           /\ ~Contains(ToLower(pipe.published.ref), u)

\* ------------------------------------------------------------------------
\* properties of the stream filter
\* ------------------------------------------------------------------------

\* the step reads a commit record
ReadsCommit == rec'.kind = "commit" /\ (commits' # commits \/ ferr' # ferr)

\* the filter as handleCommit finds it: the synthetic blobs are written
Prepared(flt) ==
    IF flt.syntheticBlobsEmitted THEN flt ELSE emitSyntheticBlobs(flt).flt

\* the lines of the output that write a commit or move a ref
RefLines(lines) ==
    LET moves(l) == l.k \in {"commit", "reset", "from", "merge", "op"}
    IN SelectSeq(lines, moves)

\* C8: for a commit whose filtered operation list is empty and which has no merge
\* line the filter writes no commit record; it writes a reset of the rewritten ref,
\* with a from line naming the resolved parent when there is one, and nothing else
\* that moves a ref.
C8_ElidedCommitNotEmitted ==
    [][(/\ ReadsCommit
        /\ ferr' = ""
        /\ rec'.merges = <<>>
        /\ filterOps(Prepared(ef), OpLines(rec'.ops)).out = <<>>)
       => LET newRef == RewriteString(ef.rules, rec'.ref)
              parentResolved == IF rec'.parent = <<>> THEN <<>>
                                ELSE resolveCommitRef(ef, rec'.parent)
          IN RefLines(out') =
                <<Line("reset", newRef)>>
                   \o (IF parentResolved = <<>> THEN <<>>
                       ELSE <<Line("from", parentResolved)>>)]_vars

\* C8 witness: a commit with a parent, all of whose operations were dropped, was
\* read and answered by a reset to its parent
C8_Witness ==
    /\ rec.kind = "commit"
    /\ ferr = ""
    /\ rec.ops # <<>>
    /\ rec.merges = <<>>
    /\ Len(out) = 3
    /\ out[1].k = "reset"
    /\ out[2] = Line("from", rec.parent)

\* the nearest ancestor-or-self of the commit marked m that was not elided, by the
\* parent lines of the records read; the empty reference when there is none
RECURSIVE NearestKept(_)
NearestKept(m) ==
    IF m \notin MarksRead THEN m
    ELSE IF commits[m].elided THEN NearestKept(commits[m].parent)
    ELSE m

\* C9: the mark of every elided commit resolves, through the mark table, to its
\* nearest ancestor that was not elided, or to the empty reference when it has
\* none, however long the chain of elided commits between them.
C9_ChainResolvesToKeptAncestor ==
    \A m \in MarksRead :
        commits[m].elided => resolveCommitRef(ef, m) = NearestKept(m)

\* C9 witness: two elided commits in a row above a commit that was kept, the mark
\* of the last resolving to the kept one
C9_Witness ==
    \E m \in MarksRead :
        /\ commits[m].elided
        /\ commits[m].parent \in MarksRead
        /\ commits[commits[m].parent].elided
        /\ commits[commits[m].parent].parent \in MarksRead
        /\ ~commits[commits[commits[m].parent].parent].elided
        /\ resolveCommitRef(ef, m) = commits[commits[m].parent].parent

\* a rename or copy out of an excluded path into one that is not
UnsafeOp(rules, op) ==
    /\ op.kind \in {"R", "C"}
    /\ ShouldExclude(rules, op.src)
    /\ ~ShouldExclude(rules, op.dst)

\* C10 as stated: a commit that carries a rename or copy from an excluded path to a
\* path that is not excluded makes the filter fail, and neither the operation nor
\* the commit is written
C10_UnsafeRenameFails ==
    (rec.kind = "commit" /\ \E i \in 1..Len(rec.ops) : UnsafeOp(ef.rules, rec.ops[i]))
       => /\ ferr # ""
          /\ \A j \in 1..Len(out) : out[j].k \notin {"commit", "op"}

\* what git fast-import makes of the operation line of a commit: the tree is a set
\* of <<path, dataref>>
ApplyLine(tree, line) ==
    LET t == TrimRightNewline(line)
        m == parseM(t)
        d == TrimSpace(TrimPrefix(t, S_D))
        r == parseTwoPaths(t, S_R[1])
        c == parseTwoPaths(t, S_C[1])
        Without(p) == {e \in tree : e[1] # p}
        At(p) == {e[2] : e \in {x \in tree : x[1] = p}}
    IN IF t = S_deleteall THEN {}
       ELSE IF HasPrefix(t, S_M) /\ m.ok THEN Without(m.path) \cup {<<m.path, m.dataref>>}
       ELSE IF HasPrefix(t, S_D) THEN Without(d)
       ELSE IF HasPrefix(t, S_R) /\ r.ok
            THEN {e \in Without(r.b) : e[1] # r.a} \cup {<<r.b, x>> : x \in At(r.a)}
       ELSE IF HasPrefix(t, S_C) /\ c.ok
            THEN Without(c.b) \cup {<<c.b, x>> : x \in At(c.a)}
       ELSE tree

RECURSIVE ApplyLines(_, _)
ApplyLines(tree, lines) ==
    IF lines = <<>> THEN tree
    ELSE ApplyLines(IF lines[1].k = "op" THEN ApplyLine(tree, lines[1].v) ELSE tree,
                    Tail(lines))

\* the parent a written commit record names in its from line
WrittenFrom(lines) ==
    LET froms == {i \in 1..Len(lines) : lines[i].k = "from"}
    IN IF froms = {} THEN <<>> ELSE lines[CHOOSE i \in froms : TRUE].v

\* the tree of the rewritten commit marked m
RECURSIVE RewrittenTree(_)
RewrittenTree(m) ==
    IF m \notin MarksRead THEN {}
    ELSE ApplyLines(RewrittenTree(WrittenFrom(commits[m].written)), commits[m].written)

\* C12 as stated: in every commit of the rewritten history the collapse path, when
\* the tree holds it, has the synthetic blob, which carries the scrubbed HEAD bytes
C12_CollapsePathConstant ==
    \A m \in MarksRead :
        ~commits[m].elided =>
            \A e \in RewrittenTree(m) :
                (e[1] = S_license /\ HasKey(ef.replaceHistoryMarks, S_license))
                    => e[2] = ef.replaceHistoryMarks[S_license]

\* ------------------------------------------------------------------------
\* properties of the scrub rules
\* ------------------------------------------------------------------------

\* p is a non-negotiable directory or a path inside one
InNonNegotiableDir(p) ==
    \E i \in 1..Len(NonNegotiableDirs) :
        \/ p = NonNegotiableDirs[i]
        \/ HasPrefix(p, NonNegotiableDirs[i] \o <<"/">>)

Returned(fn) == call.fn = fn /\ call.done

\* C13: for every compiled ruleset, whatever its exclude and opt-in lists hold,
\* ShouldExclude returns true for every path that is .git-copy or .claude or lies
\* inside one of them, also when opt_in lists the path or a pattern of it.
C13_NonNegotiableExcluded ==
    (Returned("ShouldExclude") /\ InNonNegotiableDir(call.arg.path)) => call.out = TRUE

\* .claude/k is listed in opt_in and is excluded all the same
C13_Witness ==
    /\ Returned("ShouldExclude")
    /\ call.arg.path = <<".", "c", "l", "a", "u", "d", "e", "/", "k">>
    /\ \E i \in 1..Len(call.arg.rules.OptInPaths) : call.arg.rules.OptInPaths[i] = <<".", "c", "l", "a", "u", "d", "e", "/", "k">>
    /\ call.out = TRUE

ListedIn(list, p) == \E i \in 1..Len(list) : list[i] = p

\* C14: a path listed in opt_in that is not inside a non-negotiable directory is
\* included: ShouldExclude returns false for it, even when a pattern of the
\* exclude list matches it.
C14_OptInIncluded ==
    (/\ Returned("ShouldExclude")
     /\ ListedIn(call.arg.rules.OptInPaths, call.arg.path)
     /\ ~InNonNegotiableDir(call.arg.path))
        => call.out = FALSE

\* sub occurs in s when the case of letters is ignored
OccursFold(sub, s) ==
    \E i \in 1..(Len(s) - Len(sub) + 1) :
        ToLower(SubSeq(s, i, i + Len(sub) - 1)) = ToLower(sub)

CasedChars(m) == {i \in 1..Len(m) : IsUpperCh(m[i]) \/ IsLowerCh(m[i])}

TitleCased(r) ==
    IF r = <<>> THEN r ELSE <<ToUpperCh(r[1])>> \o ToLower(Tail(r))

\* the replacement r in the case pattern of the match m
InCaseOf(m, r) ==
    IF \A i \in CasedChars(m) : IsLowerCh(m[i]) THEN ToLower(r)
    ELSE IF \A i \in CasedChars(m) : IsUpperCh(m[i]) THEN ToUpper(r)
    ELSE IF IsUpperCh(m[1]) /\ \A i \in CasedChars(m) \ {1} : IsLowerCh(m[i])
         THEN TitleCased(r)
    ELSE r

\* C16: where the text holds a match of the private username or of an
\* extra-replacement key, RewriteString writes the replacement in the case
\* pattern of the match: lower case when all cased characters of the match are
\* lower case, upper case when all are upper case, title case when the match
\* begins with an upper-case letter and its later cased characters are lower
\* case, and as configured otherwise; the text around the match is kept.
C16_ReplacementFollowsCase ==
    Returned("RewriteString") =>
        \A pre \in TextsBefore, post \in TextsAfter :
            /\ \A m \in PrivateMatches :
                  call.arg.s = pre \o m \o post
                     => call.out = pre \o InCaseOf(m, call.arg.rules.Replacement) \o post
            /\ \A m \in KeyMatches :
                  call.arg.s = pre \o m \o post
                     => call.out = pre \o InCaseOf(m, S_keyRepl) \o post

\* a/Bob! with replacement pUb becomes a/Pub!
C16_Witness ==
    /\ Returned("RewriteString")
    /\ call.arg.s = <<"a", "/", "B", "o", "b", "!">>
    /\ call.arg.rules.Replacement = <<"p", "U", "b">>
    /\ call.out = <<"a", "/", "P", "u", "b", "!">>

\* C17: <label>.git is replaced atomically: once a target has been synced with
\* success, <label>.git holds a complete validated repository, the previous one
\* or the new one, at every point during and after every later sync attempt,
\* one whose rename fails included.
C17_CacheAlwaysComplete ==
    \A l \in LabelSet : st[l].LastSyncAt > 0 => cache[l].final \in ValidatedBuilds

\* ------------------------------------------------------------------------
\* properties of the sync command
\* ------------------------------------------------------------------------

\* C18: git-copy sync exits with status 1 whenever an error occurred, the failed
\* sync of a single target included, and with status 0 only when every selected
\* target was synced or was up to date.
C18_ExitOneOnAnyError ==
    Returned("cmdSync") =>
        /\ (\/ call.arg.syncErr # ""
            \/ \E i \in 1..Len(call.arg.results) : call.arg.results[i].Error # "")
              => call.out.status = 1
        /\ call.out.status = 0
              => \A i \in 1..Len(call.arg.results) : call.arg.results[i].Error = ""

\* ------------------------------------------------------------------------
\* properties of the repository configuration
\* ------------------------------------------------------------------------

\* C19: every configuration RepoConfig.Validate accepts has a recognised version
\* (the current one, or 0 for a file that gives none), target labels pairwise
\* distinct when case is ignored, a repo_url, an account and a repo_name that are
\* not empty in every target, and an initial_history_mode of full or future in
\* every target.
C19_AcceptedConfigIsValid ==
    (Returned("Validate") /\ call.out.ok) =>
        LET c == call.out.cfg
        IN /\ c.Version \in {0, RepoConfigVersion}
           /\ \A i, j \in 1..Len(c.Targets) :
                 i # j => ToLower(c.Targets[i].Label) # ToLower(c.Targets[j].Label)
           /\ \A i \in 1..Len(c.Targets) :
                 /\ c.Targets[i].RepoURL # <<>>
                 /\ c.Targets[i].Account # <<>>
                 /\ c.Targets[i].RepoName # <<>>
                 /\ c.Targets[i].InitialHistoryMode \in {<<"f", "u", "l", "l">>, <<"f", "u", "t", "u", "r", "e">>}

CountOf(s, x) == Cardinality({i \in 1..Len(s) : s[i] = x})

\* s and t hold the same entries, each as often, in any order
SameEntries(s, t) ==
    /\ Len(s) = Len(t)
    /\ \A i \in 1..Len(s) : CountOf(s, s[i]) = CountOf(t, s[i])

WithoutLists(r) == [r EXCEPT !.Exclude = <<>>, !.OptIn = <<>>]

\* the configs a and b differ at most in the order of the entries of their
\* exclude, opt_in and replace_history_with_current lists
DifferInOrderOnly(a, b) ==
    /\ a.PrivateUsername = b.PrivateUsername
    /\ a.Defaults.ExtraReplacementPairs = b.Defaults.ExtraReplacementPairs
    /\ SameEntries(a.Defaults.Exclude, b.Defaults.Exclude)
    /\ SameEntries(a.Defaults.OptIn, b.Defaults.OptIn)
    /\ SameEntries(a.Defaults.ReplaceHistoryWithCurrent, b.Defaults.ReplaceHistoryWithCurrent)
    /\ Len(a.Targets) = Len(b.Targets)
    /\ \A i \in 1..Len(a.Targets) :
          /\ [WithoutLists(a.Targets[i]) EXCEPT !.ReplaceHistoryWithCurrent = <<>>]
                = [WithoutLists(b.Targets[i]) EXCEPT !.ReplaceHistoryWithCurrent = <<>>]
          /\ SameEntries(a.Targets[i].Exclude, b.Targets[i].Exclude)
          /\ SameEntries(a.Targets[i].OptIn, b.Targets[i].OptIn)
          /\ SameEntries(a.Targets[i].ReplaceHistoryWithCurrent,
                         b.Targets[i].ReplaceHistoryWithCurrent)

\* C20: two configurations that differ only in the order of the entries of the
\* exclude, opt_in or replace_history_with_current lists give every target the
\* same rule fingerprint.
C20_FingerprintIgnoresOrder ==
    (Returned("targetConfigHash") /\ DifferInOrderOnly(call.arg.cfg, call.arg.other))
        => call.out[1] = call.out[2]

\* the three lists of the defaults hold LICENSE and NOTICE in opposite orders in
\* the two configs, and the fingerprints of the target are equal
C20_Witness ==
    /\ Returned("targetConfigHash")
    /\ call.arg.cfg.Defaults.Exclude = <<"LICENSE", "NOTICE">>
    /\ call.arg.other.Defaults.Exclude = <<"NOTICE", "LICENSE">>
    /\ call.arg.cfg.Defaults.OptIn = <<"NOTICE", "LICENSE">>
    /\ call.arg.other.Defaults.OptIn = <<"LICENSE", "NOTICE">>
    /\ call.arg.cfg.Defaults.ReplaceHistoryWithCurrent = <<"LICENSE", "NOTICE">>
    /\ call.arg.other.Defaults.ReplaceHistoryWithCurrent = <<"NOTICE", "LICENSE">>
    /\ call.out[1] = call.out[2]

\* ------------------------------------------------------------------------
\* properties of the audit
\* ------------------------------------------------------------------------

FindingKinds == {"path-history", "replace-history-mismatch", "string-hit"}

OfKind(findings, kind) == {i \in 1..Len(findings) : findings[i].Kind = kind}

\* C21: an audit report holds at most MaxHits findings of each kind, whatever the
\* number of forbidden paths, forbidden strings and matching commits or blobs;
\* and a kind that has reached the cap does not stop the checks of the others:
\* a mismatching file and a blob with a forbidden string are still reported.
C21_AtMostMaxHitsPerKind ==
    (Returned("AuditBareRepo") /\ call.out.err = "") =>
        LET opts == normalizeOptions(call.arg.opts)
            found == call.out.Findings
        IN /\ \A kind \in FindingKinds : Cardinality(OfKind(found, kind)) <= opts.MaxHits
           /\ (\E i \in 1..Len(opts.ReplaceHistoryWithCurrentFiles) :
                  opts.ReplaceHistoryWithCurrentFiles[i] \in call.arg.repo.mismatch)
                 => OfKind(found, "replace-history-mismatch") # {}
           /\ (\E i \in 1..Len(call.arg.repo.blobs) :
                  HasNeedle(call.arg.repo.blobs[i], opts.ForbiddenStrings, opts.CaseInsensitive))
                 => OfKind(found, "string-hit") # {}

\* the lengths j such that the first i characters of the segment pattern p cover
\* the first j characters of the name s: * covers any run of characters, ? one
\* character, any other character itself
RECURSIVE GlobCovers(_, _, _)
GlobCovers(p, s, i) ==
    IF i = 0 THEN {0}
    ELSE LET before == GlobCovers(p, s, i - 1)
         IN IF p[i] = "*" THEN {j \in 0..Len(s) : \E k \in before : k <= j}
            ELSE {k + 1 : k \in {k \in before : k < Len(s) /\ (p[i] = "?" \/ p[i] = s[k + 1])}}

GlobMatchesSegment(p, s) == Len(s) \in GlobCovers(p, s, Len(p))

\* the numbers j such that the first i segments of the pattern can be aligned
\* with the first j segments of the path: a ** segment covers zero or more whole
\* segments, any other segment glob-matches one segment
RECURSIVE SegmentsCovered(_, _, _)
SegmentsCovered(ps, ts, i) ==
    IF i = 0 THEN {0}
    ELSE LET before == SegmentsCovered(ps, ts, i - 1)
         IN IF ps[i] = <<"*", "*">> THEN {j \in 0..Len(ts) : \E k \in before : k <= j}
            ELSE {k + 1 : k \in {k \in before : k < Len(ts)
                                                 /\ GlobMatchesSegment(ps[i], ts[k + 1])}}

Entries(ts) ==
    [last_error |-> ts.LastError, last_private_refs |-> ts.LastPrivateRefs,
     last_config_hash |-> ts.LastConfigHash]

\* C23: when Load returns without error, the map it returns is not nil; its
\* targets, and for each target its last_error, last_private_refs and
\* last_config_hash, are those of the state the last successful Save was given;
\* and it is empty when no Save has written yet and the file found is missing or
\* has no target map, and when the saved map was nil
C23_LoadReturnsLastSaved ==
    (Returned("Load") /\ call.out.err = "") =>
        /\ ~call.out.s.Targets.nil
        /\ lastSaved.saved =>
              /\ DOMAIN call.out.s.Targets.m = DOMAIN lastSaved.Targets
              /\ \A l \in DOMAIN lastSaved.Targets :
                    Entries(call.out.s.Targets.m[l]) = Entries(lastSaved.Targets[l])
        /\ ~lastSaved.saved => DOMAIN call.out.s.Targets.m = {}

\* Load has returned the two targets of the last Save, one of them with an
\* error, a refs digest and no config digest
C23_Witness ==
    /\ Returned("Load")
    /\ call.out.err = ""
    /\ lastSaved.saved
    /\ DOMAIN call.out.s.Targets.m = LabelSet
    /\ \E l \in LabelSet :
          /\ call.out.s.Targets.m[l].LastError = "push failed"
          /\ call.out.s.Targets.m[l].LastPrivateRefs # NoHash
          /\ call.out.s.Targets.m[l].LastConfigHash = NoHash


\* the filter has returned an error
FilterFailed == proc.filt = "returned" /\ proc.ferr # ""

\* exportFilterImport has returned a failure, no child process is running and
\* the temporary repository is removed
FailureSurfaced ==
    /\ proc.pc = "done"
    /\ proc.ret # ""
    /\ proc.exp # "running"
    /\ proc.imp # "running"
    /\ proc.tmpBare = "removed"

\* C24: once the filter has returned an error, exportFilterImport eventually
\* returns a failure, with no child process left running and the temporary
\* repository removed
C24_FilterErrorSurfaces == FilterFailed ~> FailureSurfaced


\* both children were started: the call has reached its shutdown sequence
Started == proc.exp # "unstarted"

WaitOrder == <<"filter", "export", "import">>

\* C25 as stated: every call that started both children and has returned has
\* waited for the filter, then for the export, then for the import
C25_AllThreeWaitedOnEveryPath ==
    (Started /\ proc.pc \in {"returned", "done"}) => proc.waits = WaitOrder

\* C25, amended: the waits of a call are a prefix of filter, export, import;
\* the driver is in exp.Wait(), or past it, only when the filter has returned;
\* a call that has returned has waited for the filter and the export, and for
\* the import exactly when neither the filter nor the export failed, the import
\* being killed otherwise
C25_WaitsInOrder ==
    /\ \E n \in 0..3 : proc.waits = SubSeq(WaitOrder, 1, n)
    /\ (proc.pc = "expWait" \/ Len(proc.waits) >= 2) =>
          /\ proc.filt = "returned"
          /\ ~proc.hold
    /\ (Started /\ proc.pc \in {"returned", "done"}) =>
          /\ Len(proc.waits) >= 2
          /\ Len(proc.waits) = 3 <=> proc.ret \in {"", "fast-import failed"}
          /\ Len(proc.waits) = 2 => proc.imp # "running"

\* a call has returned nil after the three waits, for a stream longer than the
\* pipe holds
C25_Witness ==
    /\ proc.pc = "done"
    /\ proc.ret = ""
    /\ proc.waits = WaitOrder
    /\ proc.tmpBare = "written"


\* the index of the last line of the tag record that starts at line i: the
\* newline after the bytes of its data section, or the end of the stream
TagEnd(lines, i) ==
    LET d == CHOOSE j \in (i + 1)..Len(lines) :
                lines[j].k = "data" /\ \A k \in (i + 1)..(j - 1) : lines[k].k # "data"
    IN IF d + 2 > Len(lines) THEN Len(lines) ELSE d + 2

\* C26: when Filter has handled a tag record, it has read the lines of the tag
\* up to the newline after its data section and no line after it, so that the
\* record that follows is the next the loop meets, and what it wrote for the tag
\* is what it writes for the tag alone: its from, tagger and message are those
\* of the tag and no line of the following record is among its lines
C26_TagEndsAfterData ==
    (rec.kind = "tag" /\ ferr = "") =>
        /\ input.pos = TagEnd(input.lines, rec.at) + 1
        /\ out = handleTag(ef, SubSeq(input.lines, 1, TagEnd(input.lines, rec.at)),
                           rec.at).out


\* the marks of the commits the filter has elided: those the mark table maps to
\* something else than themselves
ElidedMarks(flt) == {m \in DOMAIN flt.markMap : flt.markMap[m] # m}

\* the from line that follows the reset line at line i of the stream, if any
FromAfterReset(lines, i) ==
    IF i + 1 <= Len(lines) /\ lines[i + 1].k = "from" THEN <<lines[i + 1]>> ELSE <<>>

\* C27: no from or merge line the filter writes names the mark of a commit it
\* has elided, and the from line written after a reset line carries the
\* resolution of the target of the from line read
C27_NoElidedMarkReferenced ==
    /\ \A j \in 1..Len(out) :
          out[j].k \in {"from", "merge"} => out[j].v \notin ElidedMarks(ef)
    /\ (rec.kind = "reset" /\ ferr = "") =>
          \A j \in 1..Len(out) :
             out[j].k = "from" =>
                /\ FromAfterReset(input.lines, rec.at) # <<>>
                /\ out[j].v = resolveCommitRef(ef, FromAfterReset(input.lines, rec.at)[1].v)


\* the keywords that start a record
RecordKinds == {"blob", "commit", "tag", "reset"}

\* the reset line at the position of the loop is followed by a record
ResetBeforeRecord ==
    /\ ferr = ""
    /\ input.pos < Len(input.lines)
    /\ input.lines[input.pos].k = "reset"
    /\ input.lines[input.pos + 1].k \in RecordKinds

\* C28: a turn of the loop that handles a reset line followed by a record, not
\* by a from line, writes the reset line alone and reads no further line; and
\* the record that follows is handled, by the filter as the reset left it, as
\* by the filter as it was before the reset: the same lines are written and the
\* same lines read, unless the ref of the record is refused
C28_ResetLeavesNextRecord ==
    [][(ResetBeforeRecord /\ input'.pos # input.pos /\ ferr' = "") =>
          /\ input'.pos = input.pos + 1
          /\ out' = <<Line("reset",
                           RewriteString(ef.rules, TrimSpace(input.lines[input.pos].v)))>>
          /\ \E a \in {FilterLine(ef', input.lines, input.pos + 1)} :
                \E b \in {FilterLine(ef, input.lines, input.pos + 1)} :
                   a.err \notin {RefCollision, RefMismatch} =>
                      /\ a.out = b.out
                      /\ a.next = b.next
                      /\ a.err = b.err]_vars

\* a commit record was handled in the turn after the reset line before it, and
\* written
C28_Witness ==
    /\ rec.kind = "commit"
    /\ rec.at > 1
    /\ input.lines[rec.at - 1].k = "reset"
    /\ ferr = ""
    /\ \E j \in 1..Len(out) : out[j].k = "commit"
    /\ input.pos > rec.at + 1


\* the kind of the record that line j of the lines written in this turn of the
\* loop belongs to: that of the record handled, but a synthetic blob for the
\* lines written before the commit line
RecordOf(lines, j) ==
    IF rec.kind = "commit" /\ \A i \in 1..j : lines[i].k # "commit"
    THEN "blob"
    ELSE rec.kind

\* C29: every data header the filter writes is followed by its bytes and
\* declares their number; in a blob and in a tag the bytes are followed by one
\* newline and no second one, in a commit by no newline of their own: what
\* comes next is a from, merge or file-operation line, or the blank line that
\* ends the record; and no bytes are written without their header
C29_DataLengthAndDelimiter ==
    \A j \in 1..Len(out) :
       /\ out[j].k = "data" =>
             /\ j + 1 <= Len(out)
             /\ out[j + 1].k = "payload"
             /\ out[j].v = Itoa(Len(out[j + 1].v))
             /\ RecordOf(out, j) \in {"blob", "tag", "commit"}
             /\ RecordOf(out, j) \in {"blob", "tag"} =>
                   /\ j + 2 <= Len(out)
                   /\ out[j + 2].k = "blank"
                   /\ j + 3 <= Len(out) => out[j + 3].k # "blank"
             /\ RecordOf(out, j) = "commit" =>
                   /\ j + 2 <= Len(out)
                   /\ out[j + 2].k \in {"from", "merge", "op", "blank"}
                   /\ out[j + 2].k = "blank" => j + 2 = Len(out)
       /\ out[j].k = "payload" => (j > 1 /\ out[j - 1].k = "data")

\* a blob whose 7 bytes grew to 10 under the substitution was written with the
\* new length in its header
C29_Witness ==
    /\ rec.kind = "blob"
    /\ input.lines[rec.at + 2].v = <<"7">>
    /\ \E j \in 1..Len(out) : out[j].k = "data" /\ out[j].v = <<"1", "0">>


\* C30: every file-operation line filterOps returns is a line the substitution
\* has been through: a further pass of it changes nothing, so that no path and
\* no unrecognised line holds the private username
C30_OpLinesSubstituted ==
    Returned("filterOps") =>
        \A j \in 1..Len(call.out.out) :
            RewriteString(FilterRules, call.out.out[j]) = call.out.out[j]


\* the line at j of the stream opens a commit, tag or reset record
RefLineAt(lines, j) == j \in 1..Len(lines) /\ lines[j].k \in {"commit", "tag", "reset"}

\* the records before j whose ref name, another original than that of j, the
\* filter has rewritten to the name that of j rewrites to
ClaimedBy(flt, lines, j) ==
    {i \in 1..(j - 1) :
        /\ RefLineAt(lines, i)
        /\ TrimSpace(lines[i].v) # TrimSpace(lines[j].v)
        /\ HasKey(flt.refRewriteMap, TrimSpace(lines[i].v))
        /\ RewriteString(flt.rules, TrimSpace(lines[i].v))
              = RewriteString(flt.rules, TrimSpace(lines[j].v))}

\* the filter has failed with the collision error that names the original of an
\* earlier record, that of the record at j and the name both rewrite to
CollisionNamed(flt, lines, j) ==
    /\ RefLineAt(lines, j)
    /\ ferr = RefCollision
    /\ \E i \in ClaimedBy(flt, lines, j) :
          ferrArgs = <<TrimSpace(lines[i].v), TrimSpace(lines[j].v),
                       RewriteString(flt.rules, TrimSpace(lines[j].v))>>

\* C11: when the ref name of a commit, tag or reset record the filter has come to
\* rewrites to the name another original of the stream was rewritten to, the
\* filter has failed with the collision error naming both originals; a record the
\* loop hands to its handler with a ref name met before, or with one whose
\* rewritten name no other original has, raises no ref error.
C11_CollisionRefused ==
    /\ \A j \in 1..Len(input.lines) :
          (RefLineAt(input.lines, j) /\ (j < input.pos \/ j = rec.at)
              /\ ClaimedBy(ef, input.lines, j) # {})
             => \E first \in 1..j : CollisionNamed(ef, input.lines, first)
    /\ (RefLineAt(input.lines, rec.at) /\ ClaimedBy(ef, input.lines, rec.at) = {})
          => ferr \notin {RefCollision, RefMismatch}

\* the same for the records the loop hands to a handler
CollisionRefusedWhenHandled ==
    /\ (RefLineAt(input.lines, rec.at) /\ ClaimedBy(ef, input.lines, rec.at) # {})
          => CollisionNamed(ef, input.lines, rec.at)
    /\ (RefLineAt(input.lines, rec.at) /\ ClaimedBy(ef, input.lines, rec.at) = {})
          => ferr \notin {RefCollision, RefMismatch}

\* the path a file-operation line gives, without the quotes git fast-export puts
\* around a path with a space
Unquote(p) ==
    IF Len(p) >= 2 /\ p[1] = "\"" /\ p[Len(p)] = "\"" THEN SubSeq(p, 2, Len(p) - 1) ELSE p

\* the two paths of a rename or copy line, each plain or quoted
TwoPathsNamed(rest) ==
    IF rest # <<>> /\ rest[1] = "\""
    THEN LET i == IndexByte(Tail(rest), "\"")
         IN IF i < 0 THEN {}
            ELSE {SubSeq(rest, 2, i + 1), Unquote(TrimSpace(SubSeq(rest, i + 3, Len(rest))))}
    ELSE LET i == IndexByte(rest, " ")
         IN IF i < 0 THEN {}
            ELSE {SubSeq(rest, 1, i), Unquote(TrimSpace(SubSeq(rest, i + 2, Len(rest))))}

\* the paths an M, D, R or C line names
PathsNamed(line) ==
    LET t == TrimRightNewline(line)
    IN IF HasPrefix(t, S_M)
       THEN IF parseM(t).ok THEN {Unquote(parseM(t).path)} ELSE {}
       ELSE IF HasPrefix(t, S_D) THEN {Unquote(TrimSpace(TrimPrefix(t, S_D)))}
       ELSE IF HasPrefix(t, S_R) \/ HasPrefix(t, S_C) THEN TwoPathsNamed(SubSeq(t, 3, Len(t)))
       ELSE {}

NamesExcluded(rules, line) == \E q \in PathsNamed(line) : ShouldExclude(rules, q)

\* C31: no M, D, R or C line filterOps returns names a path ShouldExclude is true
\* for, and no line is returned when every line read names an excluded path
C31_NoExcludedPathEmitted ==
    (Returned("filterOps") /\ call.out.err = "") =>
        /\ \A j \in 1..Len(call.out.out) : ~NamesExcluded(FilterRules, call.out.out[j])
        /\ (\A i \in 1..Len(call.arg) : NamesExcluded(FilterRules, call.arg[i]))
              => call.out.out = <<>>

\* C32: the author, committer or tagger line rewriteIdentityLine returns is the
\* public name, the public email in angle brackets and the timestamp and timezone
\* of the line read, whatever the form of the identity read
C32_IdentityReplaced ==
    Returned("rewriteIdentityLine") =>
        call.out = Line(call.arg.kind,
                        FilterRules.publicAuthorName \o <<" ", "<">>
                            \o FilterRules.publicAuthorEmail \o <<">", " ">>
                            \o call.arg.stamp)

\* C33: the text Compile and RewriteString give is the text after the private
\* username pattern and then the extra replacements in the order the user
\* configured them, on every compilation
C33_ConfiguredOrderApplied ==
    Returned("CompileRewrite") =>
        call.out = RewriteString(Compile(Rules(S_priv, S_pub1, call.arg.extra, <<>>, <<>>)),
                                 call.arg.s)

\* the place of the commit marked m in the stream
StreamOrder(m) == CHOOSE n \in 1..Cardinality(MarksRead) : m = <<":">> \o Itoa(n)

\* the commits read with an M operation on p
ReadWithM(p) ==
    {m \in MarksRead : \E i \in 1..Len(commits[m].ops) :
                          commits[m].ops[i].kind = "M" /\ commits[m].ops[i].src = p}

\* the lines written for the commit marked m that are operations, M or D by the
\* prefix, on the path p
EmittedOn(m, prefix, p) ==
    {j \in 1..Len(commits[m].written) :
        /\ commits[m].written[j].k = "op"
        /\ HasPrefix(commits[m].written[j].v, prefix)
        /\ PathsNamed(commits[m].written[j].v) = {p}}

CollapsePaths == {ReplaceHistoryFiles[i] : i \in 1..Len(ReplaceHistoryFiles)}

\* C34: of the M operations on a collapse path with content at HEAD the first of
\* the stream, and no other, is written, with the synthetic mark of the path and
\* the mode read; no D on a collapse path is written, and no M on a collapse path
\* without content at HEAD
C34_FirstMOnlyOnCollapsePath ==
    \A p \in CollapsePaths :
        /\ \A m \in MarksRead : EmittedOn(m, S_D, p) = {}
        /\ IF p \in DOMAIN ReplaceHistoryContent
           THEN \A m \in MarksRead :
                   IF m \in ReadWithM(p)
                         /\ \A o \in ReadWithM(p) : StreamOrder(m) <= StreamOrder(o)
                   THEN /\ Cardinality(EmittedOn(m, S_M, p)) = 1
                        /\ \A j \in EmittedOn(m, S_M, p) :
                              /\ parseM(TrimRightNewline(commits[m].written[j].v)).dataref
                                    = <<":">> \o Itoa(SyntheticMarkBase
                                                        + (CHOOSE i \in 1..Len(ReplaceHistoryFiles) :
                                                              ReplaceHistoryFiles[i] = p) - 1)
                              /\ parseM(TrimRightNewline(commits[m].written[j].v)).mode
                                    = <<"1", "0", "0", "6", "4", "4">>
                   ELSE EmittedOn(m, S_M, p) = {}
           ELSE \A m \in MarksRead : EmittedOn(m, S_M, p) = {}

\* all the lines written for the commits read, in stream order
Output == Flatten([n \in 1..Cardinality(MarksRead) |-> commits[<<":">> \o Itoa(n)].written])

\* the marks the filter has given to collapse paths
SyntheticMarks == {ef.replaceHistoryMarks[p] : p \in DOMAIN ef.replaceHistoryMarks}

\* the places in the output of the M operations whose dataref is a synthetic mark
SyntheticUses ==
    {j \in 1..Len(Output) :
        /\ Output[j].k = "op"
        /\ HasPrefix(Output[j].v, S_M)
        /\ parseM(TrimRightNewline(Output[j].v)).dataref \in SyntheticMarks}

\* the places in the output where a blob record defines the mark d
BlobsDefining(d) ==
    {i \in 2..Len(Output) : Output[i].k = "mark" /\ Output[i].v = d /\ Output[i - 1].k = "blob"}

\* the marks of the stream read: those of its commits and of the blobs its
\* operations name
ExporterMarks ==
    MarksRead \cup UNION {{parseM(TrimRightNewline(commits[m].ops[i].line)).dataref :
                               i \in 1..Len(commits[m].ops)} : m \in MarksRead}

\* C35: a synthetic mark that is the dataref of a written M operation is defined by
\* one blob record of the output, written before the first commit record; the
\* marks of two collapse paths differ, and no synthetic mark is a mark of the
\* stream read
C35_SyntheticMarksDefinedOnce ==
    /\ \A j \in SyntheticUses :
          LET d == parseM(TrimRightNewline(Output[j].v)).dataref
          IN /\ Cardinality(BlobsDefining(d)) = 1
             /\ \A i \in BlobsDefining(d) :
                   i < j /\ \A c \in 1..i : Output[c].k # "commit"
    /\ \A p, q \in DOMAIN ef.replaceHistoryMarks :
          p # q => ef.replaceHistoryMarks[p] # ef.replaceHistoryMarks[q]
    /\ SyntheticMarks \cap ExporterMarks = {}

\* C35 witness: with two collapse paths marked, the second commit of the stream
\* was written with an M operation on a synthetic mark
C35_Witness ==
    /\ Cardinality(SyntheticMarks) = 2
    /\ \E j \in SyntheticUses :
          Cardinality({c \in 1..j : Output[c].k = "commit"}) = 2

\* the commits read that are the parent of no commit read: the tips of branches
Tips == {m \in MarksRead : \A o \in MarksRead : commits[o].parent # m}

\* the rewritten commit that stands for m holds the path p
RewrittenHolds(m, p) == \E e \in RewrittenTree(m) : Unquote(e[1]) = p

\* C36: a collapse path with content at HEAD that the source tree of a branch tip
\* holds is in the tree of the rewritten commit of that tip, whichever tip is HEAD
C36_HeadKeepsCollapsePath ==
    \A p \in DOMAIN ReplaceHistoryContent :
        \A m \in Tips : p \in SourcePaths(m) => RewrittenHolds(m, p)

\* the same for a history that is one line of commits
HeadKeepsCollapsePathOnOneBranch ==
    (\A m \in MarksRead :
         commits[m].parent = IF StreamOrder(m) = 1 THEN <<>>
                             ELSE <<":">> \o Itoa(StreamOrder(m) - 1))
        => C36_HeadKeepsCollapsePath

\* C37: of two targets of a config that Validate accepts, neither the cached
\* repository nor the temporary of one is the cached repository or the temporary
\* of the other
C37_TargetDirsDisjoint ==
    (Returned("syncTargetDirs") /\ call.out.ok) =>
        \A i, j \in 1..Len(call.out.dirs) :
            i # j => {call.out.dirs[i].final, call.out.dirs[i].tmp}
                        \cap {call.out.dirs[j].final, call.out.dirs[j].tmp} = {}

InFlightAtMostStartCapacity ==
    daemon.pc # "off" =>
        InFlight <= (IF daemon.startMax <= 0 THEN DefaultMaxConcurrent ELSE daemon.startMax)

\* the semaphore is full while repositories of the tick still wait for a slot
SemaphoreFullWithReposWaiting ==
    /\ daemon.pc = "range"
    /\ daemon.todo > 0
    /\ daemon.startMax <= 0
    /\ InFlight = DefaultMaxConcurrent


\* the scan left its loop at the string-hit cap with blobs still unread
CapReachedEarly ==
    /\ scan.pc = "wait"
    /\ scan.hitCount >= scan.maxHits
    /\ scan.read < Len(scan.blobs)

\* C39: the blob scan always returns: when the string-hit cap is reached
\* before every blob has been read, the cat-file process and the goroutine
\* feeding its stdin both finish and the scan returns.
C39_ScanReturnsAfterCap ==
    CapReachedEarly ~>
        (scan.pc = "returned" /\ scan.cat # "running" /\ scan.feeder = "done")

\* What does hold: a scan that reads every blob returns, with cat-file and the
\* feeder ended.
ScanReturnsAfterLastBlob ==
    (scan.pc = "wait" /\ scan.read = Len(scan.blobs)) ~>
        (scan.pc = "returned" /\ scan.cat # "running" /\ scan.feeder = "done")

\* What does hold: at the cap the scan returns when the output of the blobs
\* left unread fits in the pipe from cat-file.
ScanReturnsWhenRestFits ==
    (CapReachedEarly /\ Len(scan.blobs) - scan.read <= ScanStdoutCap) ~>
        (scan.pc = "returned" /\ scan.cat # "running" /\ scan.feeder = "done")


\* p lies inside the directory dir of the repository root
Under(dir, p) == Len(p) > Len(dir) + 1 /\ HasPrefix(p, dir \o <<"/">>)

\* C40: with the default exclude list, every file inside a .direnv directory
\* at the repository root is excluded: the pattern .direnv/, which ends in a
\* slash, excludes every path under that directory.
C40_DirenvFilesExcluded ==
    (/\ Returned("ShouldExclude")
     /\ call.arg.rules.ExcludePatterns = DefaultExclude
     /\ call.arg.rules.OptInPaths = <<>>
     /\ Under(P_direnv, call.arg.path))
        => call.out = TRUE

\* What does hold: the pattern .direnv/ excludes the path .direnv/ and no other.
DirenvPatternExcludesItsOwnText ==
    (/\ Returned("ShouldExclude")
     /\ call.arg.rules.ExcludePatterns = DefaultExclude
     /\ call.arg.rules.OptInPaths = <<>>
     /\ HasPrefix(call.arg.path, P_direnv))
        => (call.out = TRUE <=> call.arg.path = P_direnvSlash)


====
